---------------------------- MODULE Spec2Model ----------------------------
(***************************************************************************)
(* A model of the abe framework's plugin manager (plugin.go) and of the    *)
(* engine's start-up and shutdown sequence (abe.go).                       *)
(*                                                                         *)
(* Go strings that the code cuts, joins or formats (plugin keys, names,    *)
(* aliases) are sequences of one-character strings, so that fmt.Sprintf,   *)
(* strings.LastIndex and strings.TrimSpace are computed as the code        *)
(* computes them.  Strings that are only compared (configuration modes)    *)
(* are TLA+ strings.                                                       *)
(***************************************************************************)
EXTENDS Integers, Sequences, FiniteSets, TLC

VARIABLES
    config,       \* the engine's viper configuration (the keys the code reads)
    plugins,      \* PluginManager.plugins: registered plugins in order
    index,        \* PluginManager.index: key -> plugin
    alias,        \* PluginManager.alias: key -> alias
    aliasIndex,   \* PluginManager.aliasIndex: alias -> key
    nameIndex,    \* PluginManager.nameIndex: name -> keys
    last,         \* the most recent call on the manager and its result
    pc,           \* where Engine.Run is
    loop,         \* the hook dispatch loop: [at, snapshot, i, mode]
    steps,        \* the steps Run has begun and ended, in order
    phaseLog,     \* the hook calls and returns of the current phase, in order
    mount,        \* [once, registry, mounted]: mountOnce, controllerRegistry, routes
    http,         \* [built, srv, inflight]: httpServer, the serving goroutine, a request
    cron,         \* [stopped]: the job scheduler
    timer,        \* [timeout, elapsed]: the context of shutdownHTTPServer
    res,          \* [events, pool]: the event bus and the worker pool
    mu,           \* PluginManager.mu: "free" or the goroutine that holds it
    th,           \* goroutine -> its Register call: [pc, p, a, init]
    build,        \* which of the two Invoke helpers of the sources is built
    reqs,         \* request -> [pc, inj, end, errors, ran, n, inv, seen]: its gin.Context
    containers,   \* the do.Injector objects created so far: [services, down]
    mw,           \* the MiddlewareManager: [globals, shared, groups]
    heap,         \* the backing arrays of the live slices: id -> cells
    held,         \* the slices a caller of the registry holds: [got, arg]
    mwLast,       \* the last call on the registry: [op, name, args, err]
    handlerBuild, \* which of the two error handler middlewares of the sources is built
    errorHandlers,\* Engine.errorHandlers of the second one: the handlers in order
    ctx,          \* the gin.Context of a request behind the error handler middleware
    enforcer,     \* the casbin policy: the (subject, resource, action) it allows
    mappingCache, \* AuthManager.mappingCache: "METHOD:PATH" -> mapping
    mappingsDB,   \* the active rows of api_permission_mappings: "METHOD:PATH" -> mapping
    loader,       \* a call of LoadPermissionMappings: [pc, found, todo, before, n]
    sub,          \* a Subscription and its caller: [state, opts, cancelled, wg, unsub]
    workers,      \* the goroutines of the subscription: id -> [pc, msg]
    ch,           \* the messages on the subscription's channel, and whether it is closed
    acks,         \* the handler calls: [started, done], done the log of Ack and Nack
    lazy,         \* Engine.plugins, the managers created, the callers of Plugins()
    dyn           \* the DynamicConfigManager: [db, viper, mu, gor, calls]

pmVars == <<plugins, index, alias, aliasIndex, nameIndex>>

runVars == <<pc, loop, steps, phaseLog, mount, http, cron, timer, res>>

callVars == <<mu, th>>

reqVars == <<build, reqs, containers>>

\* the variables outside the plugin manager, its callers and Run
mwVars == <<mw, heap, held, mwLast>>

errVars == <<handlerBuild, errorHandlers, ctx>>

authVars == <<enforcer, mappingCache, mappingsDB, loader>>

evVars == <<sub, workers, ch, acks>>

engVars == <<lazy, dyn>>

elsewhere == <<reqVars, mwVars, errVars, authVars, evVars, engVars>>

vars == <<config, plugins, index, alias, aliasIndex, nameIndex, last,
          pc, loop, steps, phaseLog, mount, http, cron, timer, res, mu, th,
          build, reqs, containers, mw, heap, held, mwLast,
          handlerBuild, errorHandlers, ctx,
          enforcer, mappingCache, mappingsDB, loader,
          sub, workers, ch, acks, lazy, dyn>>

(***************************************************************************)
(* Bounds of the model.                                                    *)
(***************************************************************************)
\* the largest number of plugins a behaviour registers
MaxRegistered == 3

\* the largest number of plugins a behaviour of the lifecycle registers
MaxRunPlugins == 2

\* the largest server.shutdown_timeout the model draws (seconds)
MaxTimeout == 2

(***************************************************************************)
(* Strings.                                                                *)
(***************************************************************************)
DigitChar(d) ==
    CASE d = 0 -> "0" [] d = 1 -> "1" [] d = 2 -> "2" [] d = 3 -> "3"
      [] d = 4 -> "4" [] d = 5 -> "5" [] d = 6 -> "6" [] d = 7 -> "7"
      [] d = 8 -> "8" [] OTHER -> "9"

RECURSIVE Itoa(_)
\* the %d verb of fmt.Sprintf for a non-negative int
Itoa(n) ==
    IF n < 10 THEN <<DigitChar(n)>>
    ELSE Itoa(n \div 10) \o <<DigitChar(n % 10)>>

RECURSIVE LastIndexFrom(_, _, _)
LastIndexFrom(s, c, i) ==
    IF i = 0 THEN -1
    ELSE IF s[i] = c THEN i - 1
    ELSE LastIndexFrom(s, c, i - 1)

\* strings.LastIndex(s, c) for a one-character c: 0-based, -1 when absent
LastIndex(s, c) == LastIndexFrom(s, c, Len(s))

\* the Go slices s[:n] and s[n:]
Prefix(s, n) == SubSeq(s, 1, n)
Suffix(s, n) == SubSeq(s, n + 1, Len(s))

IsSpace(c) == c \in {" ", "\t", "\n"}

RECURSIVE TrimLeft(_)
TrimLeft(s) ==
    IF s # <<>> /\ IsSpace(Head(s)) THEN TrimLeft(Tail(s)) ELSE s

RECURSIVE TrimRight(_)
TrimRight(s) ==
    IF s # <<>> /\ IsSpace(s[Len(s)]) THEN TrimRight(Prefix(s, Len(s) - 1)) ELSE s

\* strings.TrimSpace
TrimSpace(s) == TrimRight(TrimLeft(s))

\* strings.ToLower on the configuration values the model draws
ToLower(s) ==
    CASE s = "ERROR" -> "error"
      [] OTHER -> s


(***************************************************************************)
(* Maps (Go map[K]V): functions whose domain is the set of present keys.   *)
(***************************************************************************)
EmptyMap == <<>>

Has(m, k) == k \in DOMAIN m

Get(m, k, zero) == IF k \in DOMAIN m THEN m[k] ELSE zero

Put(m, k, v) == [x \in (DOMAIN m) \cup {k} |-> IF x = k THEN v ELSE m[x]]

(***************************************************************************)
(* The plugins the model registers.  pkg and type are what reflect gives   *)
(* for the plugin's dynamic type (PkgPath and Name: both empty for a       *)
(* pointer type), name is Name(), minEngine is MinEngineVersion() (empty   *)
(* when the plugin does not declare one), hooks are the lifecycle hook     *)
(* interfaces the plugin implements.                                       *)
(***************************************************************************)
Phases == {"before_mount", "after_mount", "before_server_start", "shutdown"}

NoMin == <<>>
BadVersion == <<"x">>

PA == [id |-> "A", pkg |-> <<"p","k","g","A">>, type |-> <<"X">>, name |-> <<"X">>,
       minEngine |-> <<0, 9, 0>>, hooks |-> {}]
PB == [id |-> "B", pkg |-> <<"p","k","g","B">>, type |-> <<"X">>, name |-> <<"X">>,
       minEngine |-> NoMin, hooks |-> {}]
PC == [id |-> "C", pkg |-> <<"a","/","p","k","g","B">>, type |-> <<"Y">>, name |-> <<"X">>,
       minEngine |-> BadVersion, hooks |-> {}]
PD == [id |-> "D", pkg |-> <<"b",".","p","k","g","B">>, type |-> <<"X">>, name |-> <<"X">>,
       minEngine |-> <<2, 0, 0>>, hooks |-> {}]

\* a plugin whose Name() is the string generated as alias for B and D
PE == [id |-> "E", pkg |-> <<"q">>, type |-> <<"E">>,
       name |-> <<"X", "@", "p", "k", "g", "B">>,
       minEngine |-> NoMin, hooks |-> {}]

\* the plugins of the registration specification
NamePlugins == {PA, PB, PC, PD}

\* the plugins of the lifecycle specification
H1 == [id |-> "H1", pkg |-> <<"h">>, type |-> <<"P","1">>, name |-> <<"h","1">>,
       minEngine |-> NoMin, hooks |-> {"before_mount", "shutdown"}]
H2 == [id |-> "H2", pkg |-> <<"h">>, type |-> <<"P","2">>, name |-> <<"h","2">>,
       minEngine |-> NoMin, hooks |-> Phases]
H3 == [id |-> "H3", pkg |-> <<"h">>, type |-> <<"P","3">>, name |-> <<"h","3">>,
       minEngine |-> NoMin, hooks |-> {}]

HookPlugins == {H1, H2, H3}

AllPlugins == NamePlugins \cup HookPlugins \cup {PE}

PluginById(id) == CHOOSE p \in AllPlugins : p.id = id

\* key := t.PkgPath() + "." + t.Name()
KeyOf(p) == p.pkg \o <<".">> \o p.type

KeyOfId(id) == KeyOf(PluginById(id))

(***************************************************************************)
(* Configuration (viper).  A bool key is "unset", "true" or "false"; a     *)
(* string key that is unset reads as the empty string.                     *)
(***************************************************************************)
Tri == {"unset", "true", "false"}

\* values the model draws for plugins.enabled and plugins.compat.strict
EnabledChoices == {"unset", "false"}
StrictChoices == {"unset", "true"}

\* keys for which the model draws plugins.enable.<key>
EnableKeys == {KeyOf(PB)}

\* values the model draws for plugins.aliases.<key>
AliasChoices ==
    [k \in {KeyOf(PB), KeyOf(PC)} |->
        IF k = KeyOf(PB) THEN {<<>>, <<" ">>}
        ELSE {<<>>, <<"X","@","p","k","g","B"," ">>}]

ConflictModes == {"", "alias", "ERROR"}

HookFailureModes == {"", "ERROR"}

IsSet(v) == v # "unset"

\* viper GetBool: an unset key is false
GetBool(v) == v = "true"

(***************************************************************************)
(* PluginManager.Register                                                  *)
(***************************************************************************)
Nil == [kind |-> "nil", arg |-> <<>>]

\* errors.New("duplicate plugin: " + name)
ErrDuplicatePlugin(name) == [kind |-> "duplicate plugin", arg |-> name]

\* fmt.Errorf("engine version %s does not satisfy >= %s for plugin %s", ...)
ErrVersion(name) == [kind |-> "engine version", arg |-> name]

\* the error the plugin's Init returned
ErrInit(name) == [kind |-> "init", arg |-> name]

\* const Version = "1.0.0"
Version == <<1, 0, 0>>

\* semver.NewVersion / NewConstraint succeed on x.y.z
ParsesAsSemver(v) == Len(v) = 3 /\ \A i \in 1..3 : v[i] \in Nat

\* constraint ">= min" checked against current
SatisfiesMin(current, min) ==
    \/ current[1] > min[1]
    \/ current[1] = min[1] /\ current[2] > min[2]
    \/ current[1] = min[1] /\ current[2] = min[2] /\ current[3] >= min[3]

\* the plugin is enabled: plugins.enabled, overridden by plugins.enable.<key>
PluginEnabled(key) ==
    LET enabled0 == IF IsSet(config.enabled) THEN GetBool(config.enabled) ELSE TRUE
        perKey   == Get(config.enable, key, "unset")
    IN  IF IsSet(perKey) THEN GetBool(perKey) ELSE enabled0

\* the compatibility check rejects the plugin (strict mode only)
VersionRejected(p) ==
    /\ p.minEngine # NoMin
    /\ ParsesAsSemver(Version) /\ ParsesAsSemver(p.minEngine)
    /\ ~SatisfiesMin(Version, p.minEngine)
    /\ GetBool(config.strict)

\* mode := strings.ToLower(GetString("plugins.conflict_mode")), default alias
ConflictMode ==
    LET mode == ToLower(config.conflictMode)
    IN  IF mode = "" THEN "alias" ELSE mode

normalizeAlias(a) == TrimSpace(a)

\* variant: the whole key stands for its source
shortSourceWholeKey(key) == key

shortSourceFromKey(key) ==
    LET idx == LastIndex(key, ".")
    IN  IF idx > 0
        THEN LET pkg    == Prefix(key, idx)
                 slash  == LastIndex(pkg, "/")
                 dot    == LastIndex(pkg, ".")
             IN  IF slash >= 0 THEN Suffix(pkg, slash + 1)
                 ELSE IF dot >= 0 THEN Suffix(pkg, dot + 1)
                 ELSE pkg
        ELSE key

RECURSIVE makeAliasUniqueFrom(_, _)
makeAliasUniqueFrom(a, suffix) ==
    LET candidate == a \o <<"-">> \o Itoa(suffix)
    IN  IF ~Has(aliasIndex, candidate) THEN candidate
        ELSE makeAliasUniqueFrom(a, suffix + 1)

makeAliasUnique(a) == makeAliasUniqueFrom(a, 2)

generateAlias(name, key) ==
    LET base == name \o <<"@">> \o shortSourceFromKey(key)
    IN  IF ~Has(aliasIndex, base) THEN base ELSE makeAliasUnique(base)

\* variant: the alias is not looked up in the alias index
ResolveAliasUnchecked(name, key) ==
    LET configured  == normalizeAlias(Get(config.aliases, key, <<>>))
        hasConflict == Len(Get(nameIndex, name, <<>>)) > 0
    IN  IF configured = <<>> /\ hasConflict
        THEN generateAlias(name, key) ELSE configured

\* the alias Register settles on before it calls Init (lines 141-165);
\* <<>> is "no alias"
ResolveAlias(name, key) ==
    LET configured  == normalizeAlias(Get(config.aliases, key, <<>>))
        hasConflict == Len(Get(nameIndex, name, <<>>)) > 0
        a == IF configured = <<>> /\ hasConflict
             THEN generateAlias(name, key) ELSE configured
    IN  IF a # <<>> /\ Has(aliasIndex, a) THEN makeAliasUnique(a) ELSE a

\* variant: the configured mode compared without lower-casing
NameConflictRejectedCaseSensitive(name, key) ==
    /\ normalizeAlias(Get(config.aliases, key, <<>>)) = <<>>
    /\ Len(Get(nameIndex, name, <<>>)) > 0
    /\ config.conflictMode = "error"

\* the name conflict that error mode rejects (lines 148-152)
NameConflictRejected(name, key) ==
    /\ normalizeAlias(Get(config.aliases, key, <<>>)) = <<>>
    /\ Len(Get(nameIndex, name, <<>>)) > 0
    /\ ConflictMode = "error"

Called(op, id, ret, init) == [op |-> op, p |-> id, ret |-> ret, init |-> init]

\* what Register returns before it reaches Init (lines 96-152), or Proceed
Proceed == [kind |-> "proceed", arg |-> <<>>]

\* variant: no lookup of the key in the key index
PreInitReturnNoKeyLookup(p) ==
    LET key  == KeyOf(p)
        name == p.name
    IN  IF ~PluginEnabled(key) THEN Nil
        ELSE IF VersionRejected(p) THEN ErrVersion(name)
        ELSE IF NameConflictRejected(name, key) THEN ErrDuplicatePlugin(name)
        ELSE Proceed

PreInitReturn(p) ==
    LET key  == KeyOf(p)
        name == p.name
    IN  IF ~PluginEnabled(key) THEN Nil
        ELSE IF Has(index, key) THEN ErrDuplicatePlugin(key)
        ELSE IF VersionRejected(p) THEN ErrVersion(name)
        ELSE IF NameConflictRejected(name, key) THEN ErrDuplicatePlugin(name)
        ELSE Proceed

\* variant: the key index is written before Init is called
RegisterIndexesBeforeInit(p) ==
    LET key  == KeyOf(p)
        name == p.name
        a    == ResolveAlias(name, key)
    IN  IF PreInitReturn(p) # Proceed
        THEN /\ last' = Called("Register", p.id, PreInitReturn(p), FALSE)
             /\ UNCHANGED <<config, pmVars>>
        ELSE \E initErr \in BOOLEAN :
                IF initErr
                THEN /\ index' = Put(index, key, p.id)
                     /\ last' = Called("Register", p.id, ErrInit(name), TRUE)
                     /\ UNCHANGED <<config, plugins, alias, aliasIndex, nameIndex>>
                ELSE /\ Len(plugins) < MaxRegistered
                     /\ plugins' = Append(plugins, p.id)
                     /\ index' = Put(index, key, p.id)
                     /\ nameIndex' = Put(nameIndex, name,
                                         Append(Get(nameIndex, name, <<>>), key))
                     /\ IF a # <<>>
                        THEN /\ alias' = Put(alias, key, a)
                             /\ aliasIndex' = Put(aliasIndex, a, key)
                        ELSE UNCHANGED <<alias, aliasIndex>>
                     /\ last' = Called("Register", p.id, Nil, TRUE)
                     /\ UNCHANGED config

Register(p) ==
    LET key  == KeyOf(p)
        name == p.name
        a    == ResolveAlias(name, key)
        Return(ret, init) ==
            /\ last' = Called("Register", p.id, ret, init)
            /\ UNCHANGED <<config, pmVars>>
    IN  IF PreInitReturn(p) # Proceed THEN Return(PreInitReturn(p), FALSE)
        ELSE \E initErr \in BOOLEAN :
                IF initErr THEN Return(ErrInit(name), TRUE)
                ELSE /\ Len(plugins) < MaxRegistered
                     /\ plugins' = Append(plugins, p.id)
                     /\ index' = Put(index, key, p.id)
                     /\ nameIndex' = Put(nameIndex, name,
                                         Append(Get(nameIndex, name, <<>>), key))
                     /\ IF a # <<>>
                        THEN /\ alias' = Put(alias, key, a)
                             /\ aliasIndex' = Put(aliasIndex, a, key)
                        ELSE UNCHANGED <<alias, aliasIndex>>
                     /\ last' = Called("Register", p.id, Nil, TRUE)
                     /\ UNCHANGED config

\* Register(nil)
RegisterNil ==
    /\ last' = Called("Register", "nil", Nil, FALSE)
    /\ UNCHANGED <<config, pmVars>>

\* List(): a copy of the ordered plugin list
List == plugins

(***************************************************************************)
(* Configuration changes (viper.Set on the engine's configuration).        *)
(***************************************************************************)
SetConfig ==
    /\ \/ \E v \in EnabledChoices : config' = [config EXCEPT !.enabled = v]
       \/ \E k \in EnableKeys, v \in Tri :
              config' = [config EXCEPT !.enable = Put(config.enable, k, v)]
       \/ \E v \in ConflictModes : config' = [config EXCEPT !.conflictMode = v]
       \/ \E k \in DOMAIN AliasChoices : \E v \in AliasChoices[k] :
              config' = [config EXCEPT !.aliases = Put(config.aliases, k, v)]
       \/ \E v \in StrictChoices : config' = [config EXCEPT !.strict = v]
    /\ config' # config
    /\ last' = Called("SetConfig", "-", Nil, FALSE)
    /\ UNCHANGED pmVars


(***************************************************************************)
(* Lifecycle hook dispatch (OnBeforeMount, OnAfterMount,                   *)
(* OnBeforeServerStart, OnShutdown).  Each takes a snapshot of the plugin  *)
(* list, reads plugins.hook_failure_mode and calls the hook of every       *)
(* plugin of the snapshot that implements the phase's interface.  A hook   *)
(* call and its return are two steps: other goroutines run in between.     *)
(***************************************************************************)
frame == <<config, plugins, index, alias, aliasIndex, nameIndex, last, callVars,
           elsewhere>>

Alive == pc \notin {"done", "panicked", "crashed"}

\* mode := strings.ToLower(GetString("plugins.hook_failure_mode")), default warn
HookFailureMode ==
    LET mode == ToLower(config.hookFailureMode)
    IN  IF mode = "" THEN "warn" ELSE mode

\* variant: the list copied back to front
SnapshotReversed == [i \in 1..Len(plugins) |-> plugins[Len(plugins) + 1 - i]]

\* plugins := append([]Plugin(nil), pm.plugins...)
Snapshot == plugins

\* hook, ok := p.(BeforeMountHook) and the like
Implements(id, ph) == ph \in PluginById(id).hooks

RECURSIVE NextHook(_, _, _)
\* the for loop's next plugin at or after i that implements the phase
NextHook(snap, ph, i) ==
    IF i > Len(snap) \/ Implements(snap[i], ph) THEN i
    ELSE NextHook(snap, ph, i + 1)

HookOutcomes == {"nil", "error", "panic"}

\* variant: only a panic of the hook aborts, a returned error is logged
StartupHookAbortsOnPanicOnly(mode, out) == out = "panic" /\ mode = "error"

\* a start-up hook that fails panics out of the dispatcher in error mode
StartupHookAborts(mode, out) == out # "nil" /\ mode = "error"

\* variant: the shutdown dispatcher follows the mode as the others do
ShutdownHookAbortsInErrorMode(mode, out) == out # "nil" /\ mode = "error"

\* a shutdown hook that fails is logged
ShutdownHookAborts(mode, out) == FALSE

HookAborts(ph, mode, out) ==
    IF ph = "shutdown" THEN ShutdownHookAborts(mode, out)
    ELSE StartupHookAborts(mode, out)

\* variant: the after-mount hooks directly after the before-mount hooks
AfterPhaseMountLate(ph) ==
    CASE ph = "before_mount" -> "after_mount"
      [] ph = "after_mount" -> "mount"
      [] ph = "before_server_start" -> "go_serve"
      [] ph = "shutdown" -> "cron_stop"

\* the step of Run that follows the phase
AfterPhase(ph) ==
    CASE ph = "before_mount" -> "mount"
      [] ph = "after_mount" -> "init_http"
      [] ph = "before_server_start" -> "go_serve"
      [] ph = "shutdown" -> "cron_stop"

DispatchEnter(ph) ==
    /\ pc = ph /\ loop.at = "enter"
    /\ loop' = [at |-> "iter", snapshot |-> Snapshot, i |-> 1, mode |-> HookFailureMode]
    /\ steps' = Append(steps, <<ph, "begin">>)
    /\ phaseLog' = <<>>
    /\ UNCHANGED <<pc, mount, http, cron, timer, res, frame>>

HookCall(ph) ==
    /\ pc = ph /\ loop.at = "iter"
    /\ LET j == NextHook(loop.snapshot, ph, loop.i)
       IN  /\ j <= Len(loop.snapshot)
           /\ loop' = [loop EXCEPT !.at = "hook", !.i = j]
           /\ phaseLog' = Append(phaseLog, [p |-> loop.snapshot[j], ev |-> "call", out |-> "-"])
    /\ UNCHANGED <<pc, steps, mount, http, cron, timer, res, frame>>

HookReturn(ph) ==
    /\ pc = ph /\ loop.at = "hook"
    /\ \E out \in HookOutcomes :
          /\ phaseLog' = Append(phaseLog,
                                [p |-> loop.snapshot[loop.i], ev |-> "return", out |-> out])
          /\ IF HookAborts(ph, loop.mode, out)
             THEN /\ pc' = "panicked"
                  /\ loop' = [loop EXCEPT !.at = "aborted"]
             ELSE /\ pc' = pc
                  /\ loop' = [loop EXCEPT !.at = "iter", !.i = loop.i + 1]
    /\ UNCHANGED <<steps, mount, http, cron, timer, res, frame>>

DispatchExit(ph) ==
    /\ pc = ph /\ loop.at = "iter"
    /\ NextHook(loop.snapshot, ph, loop.i) > Len(loop.snapshot)
    /\ pc' = AfterPhase(ph)
    /\ loop' = [loop EXCEPT !.at = "enter"]
    /\ steps' = Append(steps, <<ph, "end">>)
    /\ UNCHANGED <<phaseLog, mount, http, cron, timer, res, frame>>

Dispatch(ph) ==
    \/ DispatchEnter(ph)
    \/ HookCall(ph)
    \/ HookReturn(ph)
    \/ DispatchExit(ph)

OnBeforeMount == Dispatch("before_mount")

OnAfterMount == Dispatch("after_mount")

OnBeforeServerStart == Dispatch("before_server_start")

OnShutdown == Dispatch("shutdown")

(***************************************************************************)
(* Engine.Run and Engine.shutdown, one action per step.                    *)
(***************************************************************************)
Done(step) == <<<<step, "begin">>, <<step, "end">>>>

\* for _, opt := range opts { opt(e) }
RunOptions ==
    /\ pc = "idle"
    /\ pc' = "before_mount"
    /\ steps' = steps \o Done("options")
    /\ UNCHANGED <<loop, phaseLog, mount, http, cron, timer, res, frame>>

\* variant: the body runs on every call, without the latch
mountEveryCall(m, panics) ==
    [m EXCEPT !.once = TRUE,
              !.mounted = @ \o [i \in 1..Len(m.registry) |->
                                  [c |-> m.registry[i],
                                   ok |-> m.registry[i] \notin panics]]]

\* variant: no recover around RegisterRoutes, the loop ends at the first panic
mountStopsAtPanic(m, panics) ==
    IF m.once THEN m
    ELSE LET bad == {i \in 1..Len(m.registry) : m.registry[i] \in panics}
             n == IF bad = {} THEN Len(m.registry)
                  ELSE CHOOSE i \in bad : \A j \in bad : i <= j
         IN  [m EXCEPT !.once = TRUE,
                       !.mounted = @ \o [i \in 1..n |->
                                           [c |-> m.registry[i],
                                            ok |-> m.registry[i] \notin panics]]]

\* e.mountOnce.Do(func): the first call takes a snapshot of the registry,
\* calls every provider of it and RegisterRoutes of its controller, in
\* order; mounted is the log of these calls.  Later calls do nothing.
mountOnceDo(m, panics) ==
    IF m.once THEN m
    ELSE [m EXCEPT !.once = TRUE,
                   !.mounted = @ \o [i \in 1..Len(m.registry) |->
                                       [c |-> m.registry[i],
                                        ok |-> m.registry[i] \notin panics]]]

\* AddController(providers...)
AddController(providers) ==
    /\ mount' = IF Len(providers) = 0 THEN mount
                ELSE [mount EXCEPT !.registry = @ \o providers]
    /\ UNCHANGED <<pc, loop, steps, phaseLog, http, cron, timer, res, frame>>

\* mountOnce.Do: every provider's controller registers its routes; a panic
\* of one RegisterRoutes is recovered
mountControllers ==
    /\ pc = "mount"
    /\ \E panics \in SUBSET {mount.registry[i] : i \in 1..Len(mount.registry)} :
          mount' = mountOnceDo(mount, panics)
    /\ pc' = "after_mount"
    /\ steps' = steps \o Done("mount")
    /\ UNCHANGED <<loop, phaseLog, http, cron, timer, res, frame>>

initializeHTTPServer ==
    /\ pc = "init_http"
    /\ http' = [http EXCEPT !.built = TRUE]
    /\ pc' = "before_server_start"
    /\ steps' = steps \o Done("init_http")
    /\ UNCHANGED <<loop, phaseLog, mount, cron, timer, res, frame>>

\* go e.startHTTPServer(), then Run blocks on the signal context
GoStartHTTPServer ==
    /\ pc = "go_serve"
    /\ http' = [http EXCEPT !.srv = "spawned"]
    /\ pc' = "wait_signal"
    /\ steps' = steps \o Done("go_serve") \o <<<<"wait_signal", "begin">>>>
    /\ UNCHANGED <<loop, phaseLog, mount, cron, timer, res, frame>>

\* the serving goroutine: ListenAndServe listens, or fails and panics; after
\* Shutdown it returns http.ErrServerClosed, which is not a failure
startHTTPServer ==
    /\ Alive
    /\ \/ /\ http.srv = "spawned"
          /\ http' = [http EXCEPT !.srv = "listening"]
          /\ pc' = pc
       \/ /\ http.srv \in {"spawned", "listening"}
          /\ http' = [http EXCEPT !.srv = "failed"]
          /\ pc' = "crashed"
    /\ UNCHANGED <<loop, steps, phaseLog, mount, cron, timer, res, frame>>

\* SIGINT or SIGTERM ends the wait
Signal ==
    /\ pc = "wait_signal"
    /\ pc' = "shutdown"
    /\ steps' = Append(steps, <<"wait_signal", "end">>)
    /\ UNCHANGED <<loop, phaseLog, mount, http, cron, timer, res, frame>>

\* stopCtx := e.cron.Stop()
CronStop ==
    /\ pc = "cron_stop"
    /\ cron' = [cron EXCEPT !.stopped = TRUE]
    /\ pc' = "cron_wait"
    /\ steps' = Append(steps, <<"cron_stop", "begin">>)
    /\ UNCHANGED <<loop, phaseLog, mount, http, timer, res, frame>>

\* <-stopCtx.Done(): done once the jobs that were running have returned
CronWait ==
    /\ pc = "cron_wait"
    /\ pc' = "http_shutdown"
    /\ steps' = Append(steps, <<"cron_stop", "end">>)
    /\ UNCHANGED <<loop, phaseLog, mount, http, cron, timer, res, frame>>

shutdownCron == CronStop \/ CronWait

\* const defaultShutdownTimeout = 5 * time.Second
defaultShutdownTimeout == 5

\* variant: a timeout of zero is kept
ShutdownTimeoutZeroKept ==
    IF config.shutdownTimeout < 0 THEN defaultShutdownTimeout
    ELSE config.shutdownTimeout

\* timeout := GetDuration("server.shutdown_timeout"); if timeout <= 0 { default }
ShutdownTimeout ==
    IF config.shutdownTimeout <= 0 THEN defaultShutdownTimeout
    ELSE config.shutdownTimeout

\* context.WithTimeout and the call of httpServer.Shutdown(ctx): the listener
\* closes, no new request is accepted
HTTPShutdownBegin ==
    /\ pc = "http_shutdown"
    /\ timer' = [timeout |-> ShutdownTimeout, elapsed |-> 0]
    /\ http' = [http EXCEPT !.srv = "closed"]
    /\ pc' = "http_wait"
    /\ steps' = Append(steps, <<"http_shutdown", "begin">>)
    /\ UNCHANGED <<loop, phaseLog, mount, cron, res, frame>>

\* Shutdown returns nil once no request is in flight
HTTPShutdownDone ==
    /\ pc = "http_wait"
    /\ http.inflight = "none"
    /\ pc' = "close_events"
    /\ steps' = Append(steps, <<"http_shutdown", "end">>)
    /\ UNCHANGED <<loop, phaseLog, mount, http, cron, timer, res, frame>>

\* Shutdown returns ctx.Err() when the context's deadline has passed:
\* panic(fmt.Errorf(...))
HTTPShutdownTimeout ==
    /\ pc = "http_wait"
    /\ timer.elapsed >= timer.timeout
    /\ pc' = "panicked"
    /\ UNCHANGED <<loop, steps, phaseLog, mount, http, cron, timer, res, frame>>

\* one second passes while Shutdown waits; the deadline is not overrun
Tick ==
    /\ pc = "http_wait"
    /\ timer.elapsed < timer.timeout
    /\ timer' = [timer EXCEPT !.elapsed = timer.elapsed + 1]
    /\ UNCHANGED <<pc, loop, steps, phaseLog, mount, http, cron, res, frame>>

shutdownHTTPServer == HTTPShutdownBegin \/ HTTPShutdownDone \/ HTTPShutdownTimeout

\* variant: an error of e.events.Close() panics
closeEventBusFatal ==
    /\ pc = "close_events"
    /\ \E err \in BOOLEAN :
          /\ res' = [res EXCEPT !.events = IF err THEN "close failed" ELSE "closed"]
          /\ pc' = IF err THEN "panicked" ELSE "release_pool"
    /\ steps' = steps \o Done("close_events")
    /\ UNCHANGED <<loop, phaseLog, mount, http, cron, timer, frame>>

\* e.events.Close(): an error is logged
closeEventBus ==
    /\ pc = "close_events"
    /\ \E err \in BOOLEAN :
          res' = [res EXCEPT !.events = IF err THEN "close failed" ELSE "closed"]
    /\ pc' = "release_pool"
    /\ steps' = steps \o Done("close_events")
    /\ UNCHANGED <<loop, phaseLog, mount, http, cron, timer, frame>>

\* e.pool.Release()
releasePool ==
    /\ pc = "release_pool"
    /\ res' = [res EXCEPT !.pool = "released"]
    /\ pc' = "done"
    /\ steps' = steps \o Done("release_pool")
    /\ UNCHANGED <<loop, phaseLog, mount, http, cron, timer, frame>>

shutdown ==
    \/ OnShutdown
    \/ shutdownCron
    \/ shutdownHTTPServer
    \/ closeEventBus
    \/ releasePool

Run ==
    \/ RunOptions
    \/ OnBeforeMount
    \/ mountControllers
    \/ OnAfterMount
    \/ initializeHTTPServer
    \/ OnBeforeServerStart
    \/ GoStartHTTPServer
    \/ Signal
    \/ shutdown

\* a call of mountControllers after the one Run made
mountControllersAgain ==
    /\ mount.once
    /\ \E panics \in SUBSET {mount.registry[i] : i \in 1..Len(mount.registry)} :
          mount' = mountOnceDo(mount, panics)
    /\ UNCHANGED <<pc, loop, steps, phaseLog, http, cron, timer, res, frame>>

(***************************************************************************)
(* The environment of a running engine: requests.                          *)
(***************************************************************************)
\* a request arrives; its handler returns later ("running") or never ("stuck")
RequestArrives ==
    /\ Alive
    /\ http.srv = "listening" /\ http.inflight = "none"
    /\ \E h \in {"running", "stuck"} : http' = [http EXCEPT !.inflight = h]
    /\ UNCHANGED <<pc, loop, steps, phaseLog, mount, cron, timer, res, frame>>

HandlerReturns ==
    /\ Alive
    /\ http.inflight = "running"
    /\ http' = [http EXCEPT !.inflight = "none"]
    /\ UNCHANGED <<pc, loop, steps, phaseLog, mount, cron, timer, res, frame>>

Environment == RequestArrives \/ HandlerReturns

(***************************************************************************)
(* Initial states.                                                         *)
(***************************************************************************)
InitConfig ==
    [enabled |-> "unset", enable |-> EmptyMap, conflictMode |-> "",
     aliases |-> EmptyMap, strict |-> "unset",
     hookFailureMode |-> "", shutdownTimeout |-> 0]

InitManager ==
    /\ plugins = <<>>
    /\ index = EmptyMap
    /\ alias = EmptyMap
    /\ aliasIndex = EmptyMap
    /\ nameIndex = EmptyMap
    /\ last = Called("new", "-", Nil, FALSE)

InitEngine ==
    /\ pc = "idle"
    /\ loop = [at |-> "enter", snapshot |-> <<>>, i |-> 0, mode |-> ""]
    /\ steps = <<>>
    /\ phaseLog = <<>>
    /\ mount = [once |-> FALSE, registry |-> <<>>, mounted |-> <<>>]
    /\ http = [built |-> FALSE, srv |-> "none", inflight |-> "none"]
    /\ cron = [stopped |-> FALSE]
    /\ timer = [timeout |-> 0, elapsed |-> 0]
    /\ res = [events |-> "open", pool |-> "open"]

\* the goroutines that call Register concurrently
Goroutines == {"g1", "g2"}

NoCall == [pc |-> "idle", p |-> "-", a |-> <<>>, init |-> FALSE]

InitCalls ==
    /\ mu = "free"
    /\ th = [g \in Goroutines |-> NoCall]

\* the requests the model serves
Requests == {"r1", "r2"}

\* a gin.Context before its request: no keys, no errors
NoRequest ==
    [pc |-> "idle", inj |-> 0, end |-> "-", errors |-> <<>>, ran |-> 0,
     n |-> 0, inv |-> <<>>, seen |-> {}]

InitRequests ==
    /\ reqs = [r \in Requests |-> NoRequest]
    /\ containers = <<>>

\* the Invoke helper of container_middleware.go or that of specification.go
Builds == {"MustInvokeStruct", "do.Invoke"}

\* a nil slice: no backing array, length 0
NilSlice == [id |-> 0, len |-> 0]

\* newMiddlewareManager, and a caller that holds no list yet
InitMiddleware ==
    /\ mw = [globals |-> NilSlice, shared |-> EmptyMap, groups |-> EmptyMap]
    /\ heap = EmptyMap
    /\ held = [got |-> NilSlice, arg |-> NilSlice]
    /\ mwLast = [op |-> "new", name |-> "", args |-> <<>>, err |-> "nil"]

\* a request that has not reached the error handler middleware
NoContext ==
    [pc |-> "idle", Errors |-> <<>>, written |-> <<>>, produced |-> <<>>,
     returned |-> FALSE, at |-> "authn", aborted |-> FALSE,
     claims |-> [set |-> FALSE, UserID |-> "", Roles |-> <<>>, PrimaryRole |-> ""],
     ran |-> 0, route |-> [kind |-> "", method |-> "", path |-> ""],
     allowedBy |-> <<>>]

InitErrorHandling ==
    /\ handlerBuild = "ErrorHandlerMiddleware"
    /\ errorHandlers = <<>>
    /\ ctx = NoContext

\* no call of LoadPermissionMappings is running
NoLoad == [pc |-> "idle", found |-> EmptyMap, todo |-> {}, before |-> {}, n |-> 0]

InitAuth ==
    /\ enforcer = {}
    /\ mappingCache = EmptyMap
    /\ mappingsDB = EmptyMap
    /\ loader = NoLoad

\* no subscription yet
InitEvents ==
    /\ sub = [state |-> "none", opts |-> <<>>, cancelled |-> FALSE, wg |-> 0,
              unsub |-> "idle"]
    /\ workers = EmptyMap
    /\ ch = [queue |-> <<>>, closed |-> FALSE, published |-> 0]
    /\ acks = [started |-> 0, done |-> <<>>]

\* who calls Engine.Plugins(): the goroutine of Run and two others
PluginsCallers == Goroutines \cup {"main"}

\* a goroutine that has not called Plugins(); nil is 0
NoPluginsCall == [pc |-> "idle", got |-> 0, via |-> 0, calls |-> 0, snapshot |-> <<>>]

\* e.plugins is nil and no manager exists (abe.go:51, 125-131)
InitLazy ==
    lazy = [field |-> 0, managers |-> <<>>, returned |-> {},
            gor |-> [g \in PluginsCallers |-> NoPluginsCall]]

\* strconv.Atoi of the values the model uses: [ok, n]
Atoi(value) ==
    IF value = "1" \/ value = "01" THEN [ok |-> TRUE, n |-> 1]
    ELSE IF value = "2" THEN [ok |-> TRUE, n |-> 2]
    ELSE [ok |-> FALSE, n |-> 0]

\* parseValue (abe_dynamic_config.go:118-139): [ok, kind, n, s]
parseValue(value, valueType) ==
    IF valueType = "int"
    THEN [ok |-> Atoi(value).ok, kind |-> "int", n |-> Atoi(value).n, s |-> ""]
    ELSE [ok |-> TRUE, kind |-> "string", n |-> 0, s |-> value]

\* the rows of system_configs at start: key -> [Value, ValueType, Enabled]
InitRows ==
    [k \in {"a", "s", "d"} |->
        IF k = "a" THEN [Value |-> "1", ValueType |-> "int", Enabled |-> TRUE]
        ELSE IF k = "s" THEN [Value |-> "1", ValueType |-> "string", Enabled |-> TRUE]
        ELSE [Value |-> "1", ValueType |-> "int", Enabled |-> FALSE]]

\* a goroutine that is in no call on the DynamicConfigManager
NoConfigCall ==
    [pc |-> "idle", op |-> "", key |-> "", value |-> "", found |-> EmptyMap,
     err |-> "nil"]

\* after the LoadAll of the start: Viper holds the enabled rows' parsed values
InitDyn ==
    dyn = [db |-> InitRows,
           viper |-> [k \in {"a", "s"} |->
                         parseValue(InitRows[k].Value, InitRows[k].ValueType)],
           mu |-> "free",
           gor |-> [g \in Goroutines |-> NoConfigCall],
           calls |-> 0]

InitElsewhere ==
    /\ build = "do.Invoke"
    /\ InitRequests
    /\ InitMiddleware
    /\ InitErrorHandling
    /\ InitAuth
    /\ InitEvents
    /\ InitLazy
    /\ InitDyn

(***************************************************************************)
(* The registration specification: any sequence of Register calls and      *)
(* configuration changes on the manager of an engine that is not running.  *)
(***************************************************************************)
Init ==
    /\ config = InitConfig
    /\ InitManager
    /\ InitEngine
    /\ InitCalls
    /\ InitElsewhere

Next ==
    \/ (\E p \in NamePlugins : Register(p)) /\ UNCHANGED <<runVars, callVars, elsewhere>>
    \/ RegisterNil /\ UNCHANGED <<runVars, callVars, elsewhere>>
    \/ SetConfig /\ UNCHANGED <<runVars, callVars, elsewhere>>

Spec == Init /\ [][Next]_vars

(***************************************************************************)
(* The lifecycle specification: Engine.Run from its call to the end of the *)
(* process, with plugins registered before and during Run and requests.    *)
(* The configuration is read from the file and not changed.                *)
(***************************************************************************)
TimeoutChoices == (-1)..MaxTimeout

RunInit ==
    /\ \E m \in HookFailureModes, t \in TimeoutChoices :
          config = [InitConfig EXCEPT !.hookFailureMode = m, !.shutdownTimeout = t]
    /\ InitManager
    /\ InitEngine
    /\ InitCalls
    /\ InitElsewhere

\* a plugin is registered, before Run or while it runs (by a hook or by
\* another goroutine); the lifecycle specification draws the registrations
\* that succeed
RegisterHookPlugin ==
    /\ Alive
    /\ Len(plugins) < MaxRunPlugins
    /\ \E p \in HookPlugins : Register(p)
    /\ last'.ret = Nil /\ last'.init
    /\ UNCHANGED <<runVars, callVars, elsewhere>>

RunNext ==
    \/ RegisterHookPlugin
    \/ Run
    \/ startHTTPServer
    \/ Tick
    \/ Environment

RunSpec == RunInit /\ [][RunNext]_vars

\* the clock advances and an expired context ends Shutdown
FairRunSpec == RunSpec /\ WF_vars(Tick) /\ WF_vars(HTTPShutdownTimeout)

(***************************************************************************)
(* Properties of plugin registration (Spec).                               *)
(***************************************************************************)
XatPkgB == <<"X", "@", "p", "k", "g", "B">>

\* the step is a call Register(p) that returned
IsRegisterOf(p) == last'.op = "Register" /\ last'.p = p.id

\* plugins.aliases.<key> holds an alias (not empty, not blank)
HasAliasOverride(key) == TrimSpace(Get(config.aliases, key, <<>>)) # <<>>

\* a plugin named name is registered
NameRegistered(name) == \E i \in 1..Len(plugins) : PluginById(plugins[i]).name = name

\* C1: the aliases assigned to registered plugins are pairwise distinct: no
\* two different plugin keys map to the same alias, whether the alias was
\* generated for a colliding name or taken from plugins.aliases.<key>.
C1_AliasesPairwiseDistinct ==
    \A k1 \in DOMAIN alias : \A k2 \in DOMAIN alias :
        k1 # k2 => alias[k1] # alias[k2]

\* alias mode: C took the configured alias X@pkgB, B and D, whose generated
\* alias is X@pkgB too, were moved to X@pkgB-2 and X@pkgB-3
C1_Witness ==
    /\ ConflictMode = "alias"
    /\ plugins = <<"C", "B", "D">>
    /\ Get(alias, KeyOf(PC), <<>>) = XatPkgB
    /\ Get(alias, KeyOf(PB), <<>>) = XatPkgB \o <<"-", "2">>
    /\ Get(alias, KeyOf(PD), <<>>) = XatPkgB \o <<"-", "3">>

NoDuplicateKeys ==
    \A i \in 1..Len(plugins) : \A j \in 1..(i - 1) :
        KeyOfId(plugins[i]) # KeyOfId(plugins[j])

AIsFirstX ==
    /\ Has(index, KeyOf(PA))
    /\ nameIndex[PA.name][1] = KeyOf(PA)

UniquifiedXatPkgB == {XatPkgB \o <<"-">> \o <<DigitChar(n)>> : n \in 2..9}

IsPrefix(s, t) == Len(s) <= Len(t) /\ \A i \in 1..Len(s) : s[i] = t[i]

Range(s) == {s[i] : i \in 1..Len(s)}

LastOf(s) == s[Len(s)]

StartupOrder ==
    Done("options") \o Done("before_mount") \o Done("mount")
        \o Done("after_mount") \o Done("init_http")
        \o Done("before_server_start") \o Done("go_serve")
        \o <<<<"wait_signal", "begin">>>>

ShutdownOrder ==
    Done("shutdown") \o Done("cron_stop") \o Done("http_shutdown")
        \o Done("close_events") \o Done("release_pool")

RunOrder == StartupOrder \o <<<<"wait_signal", "end">>>> \o ShutdownOrder

StartupPhases == Phases \ {"shutdown"}

SignalReceived == <<"wait_signal", "end">> \in Range(steps)

\* the phase whose hook calls phaseLog holds: the last one that was entered
LoggedPhase ==
    LET entered == {i \in 1..Len(steps) : steps[i][1] \in Phases}
    IN  IF entered = {} THEN "none"
        ELSE steps[CHOOSE i \in entered : \A j \in entered : j <= i][1]

\* the position of a registered plugin in registration order
RegisteredAt(id) == CHOOSE i \in 1..Len(plugins) : plugins[i] = id

Calls == {k \in 1..Len(phaseLog) : phaseLog[k].ev = "call"}

Returns == {k \in 1..Len(phaseLog) : phaseLog[k].ev = "return"}

FailedReturns == {k \in Returns : phaseLog[k].out # "nil"}

\* the plugins of the dispatcher's snapshot that implement the logged phase
Implementers ==
    {loop.snapshot[i] : i \in {j \in 1..Len(loop.snapshot) :
                                  Implements(loop.snapshot[j], LoggedPhase)}}

CalledPlugins == {phaseLog[k].p : k \in Calls}

\* the logged phase has run to its end
PhaseEnded == LoggedPhase \in Phases /\ <<LoggedPhase, "end">> \in Range(steps)

\* C5: in each lifecycle phase the hooks of the plugins that implement the
\* phase are invoked one at a time in plugin registration order: a hook is
\* called only after the hook called before it has returned, a plugin's hook
\* is called after those of the plugins registered before it, only plugins
\* that implement the phase are called, each once, and when the phase ends
\* every implementing plugin registered at its start has been called.
C5_HooksInRegistrationOrder ==
    /\ \A k \in 1..Len(phaseLog) :
          /\ phaseLog[k].p \in Range(plugins)
          /\ Implements(phaseLog[k].p, LoggedPhase)
          /\ k % 2 = 1 => phaseLog[k].ev = "call"
          /\ k % 2 = 0 => /\ phaseLog[k].ev = "return"
                          /\ phaseLog[k].p = phaseLog[k - 1].p
    /\ \A k1 \in Calls : \A k2 \in Calls :
          k1 < k2 => RegisteredAt(phaseLog[k1].p) < RegisteredAt(phaseLog[k2].p)
    /\ PhaseEnded => CalledPlugins = Implementers /\ Calls = {k - 1 : k \in Returns}

\* shutdown phase over two plugins: H1 called and returned, then H2
C5_Witness ==
    /\ plugins = <<"H1", "H2">>
    /\ LoggedPhase = "shutdown"
    /\ Len(phaseLog) = 4
    /\ phaseLog[1] = [p |-> "H1", ev |-> "call", out |-> "-"]
    /\ phaseLog[2].p = "H1" /\ phaseLog[2].ev = "return"
    /\ phaseLog[3] = [p |-> "H2", ev |-> "call", out |-> "-"]
    /\ phaseLog[4].p = "H2" /\ phaseLog[4].ev = "return"

\* C6: Run performs the startup steps in the fixed order options,
\* before-mount hooks, mount, after-mount hooks, HTTP server construction,
\* before-server-start hooks, start of serving in the background, wait for
\* the signal, each step ending before the next begins; the server is not
\* started, so never listens, before the before-server-start phase has ended,
\* and no after-mount hook runs before the mount has finished.
C6_StartupOrder ==
    /\ IsPrefix(steps, RunOrder)
    /\ Len(steps) >= Len(StartupOrder) \/ IsPrefix(steps, StartupOrder)
    /\ http.srv # "none" =>
          /\ <<"before_server_start", "end">> \in Range(steps)
          /\ http.built
    /\ (pc = "before_server_start" /\ loop.at # "enter") =>
          http.srv = "none" /\ http.built
    /\ (pc = "after_mount" /\ loop.at # "enter") =>
          mount.once /\ <<"mount", "end">> \in Range(steps)
    /\ (pc = "before_mount" /\ loop.at # "enter") => ~mount.once

\* the engine waits for the signal with two plugins and the server listening
C6_Witness ==
    /\ pc = "wait_signal"
    /\ steps = StartupOrder
    /\ http.srv = "listening"
    /\ Len(plugins) = 2

\* the run has ended after the signal, by return of Run or by a panic of Run
EndedAfterSignal == SignalReceived /\ pc \in {"done", "panicked"}

\* C7 as stated: after the signal the five shutdown steps execute in the
\* fixed order unconditionally, so a run that has ended has executed all of
\* them, and a failed close of the event bus does not prevent the release of
\* the pool.
C7_ShutdownStepsUnconditional ==
    /\ IsPrefix(steps, RunOrder)
    /\ EndedAfterSignal => steps = RunOrder /\ res.pool = "released"
    /\ res.events = "close failed" => pc \in {"release_pool", "done"}

\* C7 amended: after the signal the shutdown steps execute in the fixed
\* order plugin shutdown hooks, scheduler stop (with the wait), HTTP shutdown
\* and, when the HTTP shutdown has returned without error, event bus close
\* and pool release; a run that ends otherwise has panicked in the HTTP
\* shutdown with the event bus and the pool left open; a failed close of the
\* event bus does not prevent the release of the pool.
C7_ShutdownOrder ==
    /\ IsPrefix(steps, RunOrder)
    /\ (SignalReceived /\ pc = "done") =>
          /\ steps = RunOrder
          /\ cron.stopped
          /\ res.events \in {"closed", "close failed"}
          /\ res.pool = "released"
    /\ (SignalReceived /\ pc = "panicked") =>
          /\ LastOf(steps) = <<"http_shutdown", "begin">>
          /\ timer.elapsed >= timer.timeout
          /\ res = [events |-> "open", pool |-> "open"]
    /\ res.events = "close failed" => pc \in {"release_pool", "done"}
    /\ <<"http_shutdown", "begin">> \in Range(steps) => cron.stopped

\* the run ended with the pool released after the event bus failed to close
C7_Witness ==
    /\ pc = "done"
    /\ steps = RunOrder
    /\ res = [events |-> "close failed", pool |-> "released"]

\* the bound of the HTTP shutdown that the configuration asks for
ConfiguredBound ==
    IF config.shutdownTimeout > 0 THEN config.shutdownTimeout ELSE 5

\* C8: with an in-flight handler that never returns the HTTP shutdown step
\* ends in a panic when the bound has elapsed since the step began: the panic
\* comes (liveness, with the clock advancing), and at the panic the time
\* elapsed is the bound, which is server.shutdown_timeout when that is
\* positive and 5 seconds when it is unset (zero) or not positive; before the
\* bound has elapsed the step is still waiting.
C8_TimeoutAbort ==
    /\ [](pc \in {"http_wait", "panicked"} /\ SignalReceived
             /\ LastOf(steps) = <<"http_shutdown", "begin">>
          => /\ timer.timeout = ConfiguredBound
             /\ timer.elapsed <= timer.timeout
             /\ pc = "panicked" => timer.elapsed = ConfiguredBound
             /\ (http.inflight = "stuck" /\ timer.elapsed < ConfiguredBound)
                    => pc = "http_wait")
    /\ (pc = "http_wait" /\ http.inflight = "stuck") ~> (pc = "panicked")

\* timeout 2 configured, handler stuck: panic with 2 seconds elapsed
C8_Witness ==
    /\ config.shutdownTimeout = 2
    /\ http.inflight = "stuck"
    /\ pc = "panicked"
    /\ LastOf(steps) = <<"http_shutdown", "begin">>
    /\ timer = [timeout |-> 2, elapsed |-> 2]

\* the logged phase is a startup phase that has been entered and not left
InStartupPhase ==
    /\ LoggedPhase \in StartupPhases
    /\ LastOf(steps) = <<LoggedPhase, "begin">>

\* C9: in the three startup phases, under hook_failure_mode warn (the
\* default) a hook that returns an error or panics does not abort: the
\* phase goes on, every implementing plugin is called by its end and Run
\* goes to the next step; under error the first hook that returns an error
\* or panics aborts Run with a panic: it is the last event of the phase, no
\* later hook is called and no later step is executed.
C9_StartupHookFailure ==
    LoggedPhase \in StartupPhases =>
        /\ loop.mode = HookFailureMode
        /\ HookFailureMode = "warn" =>
              /\ pc # "panicked"
              /\ PhaseEnded => CalledPlugins = Implementers
              /\ (InStartupPhase /\ loop.at = "iter") => pc = LoggedPhase
        /\ HookFailureMode = "error" =>
              /\ FailedReturns # {} <=> pc = "panicked"
              /\ FailedReturns \subseteq {Len(phaseLog)}
              /\ pc = "panicked" =>
                    /\ InStartupPhase
                    /\ LoggedPhase = "before_mount" => ~mount.once
                    /\ http.srv = "none"

\* error mode, before-mount phase over H1 and H2: H1's hook failed, Run
\* panicked, H2's hook was not called, nothing mounted
C9_Witness ==
    /\ HookFailureMode = "error"
    /\ pc = "panicked"
    /\ LoggedPhase = "before_mount"
    /\ loop.snapshot = <<"H1", "H2">>
    /\ Len(phaseLog) = 2
    /\ phaseLog[2].p = "H1" /\ phaseLog[2].out # "nil"
    /\ ~mount.once

ShutdownStepsAfterHooks == {"cron_stop", "http_shutdown", "close_events", "release_pool"}

\* C10 as stated: whatever the mode, after a shutdown hook failed the phase
\* goes on (unless the serving goroutine brings the process down), the hooks
\* of all later plugins are invoked and the four following shutdown steps
\* are started, so that a run that has ended has started all of them.
C10_AllStepsStartedAfterHookFailure ==
    (LoggedPhase = "shutdown" /\ FailedReturns # {}) =>
        /\ pc \in {"shutdown", "crashed"} \/ PhaseEnded
        /\ PhaseEnded => CalledPlugins = Implementers
        /\ EndedAfterSignal =>
              \A st \in ShutdownStepsAfterHooks : <<st, "begin">> \in Range(steps)

\* C10 amended: whatever the mode, a failing shutdown hook does not abort:
\* the phase goes on (unless the serving goroutine brings the process
\* down), every implementing plugin of the snapshot is called by
\* its end, and the scheduler stop and the HTTP shutdown are started; the
\* event-bus close and the pool release are started when the HTTP shutdown
\* returns without error, and a run that ends without them has panicked in
\* the HTTP shutdown on its timeout.
C10_ShutdownHookFailure ==
    (LoggedPhase = "shutdown" /\ FailedReturns # {}) =>
        /\ pc \in {"shutdown", "crashed"} \/ PhaseEnded
        /\ PhaseEnded => CalledPlugins = Implementers
        /\ EndedAfterSignal =>
              /\ <<"cron_stop", "begin">> \in Range(steps)
              /\ <<"http_shutdown", "begin">> \in Range(steps)
              /\ pc = "done" =>
                    /\ <<"close_events", "begin">> \in Range(steps)
                    /\ <<"release_pool", "begin">> \in Range(steps)
              /\ pc = "panicked" =>
                    /\ LastOf(steps) = <<"http_shutdown", "begin">>
                    /\ timer.elapsed >= timer.timeout

\* error mode: H1's shutdown hook panicked, H2's hook was called after it
\* and the run went on to its end
C10_Witness ==
    /\ HookFailureMode = "error"
    /\ pc = "done"
    /\ steps = RunOrder
    /\ Len(phaseLog) = 4
    /\ phaseLog[2] = [p |-> "H1", ev |-> "return", out |-> "panic"]
    /\ phaseLog[3] = [p |-> "H2", ev |-> "call", out |-> "-"]

\* the step enters the dispatcher of phase ph: snapshot and mode are taken
EntersPhase(ph) == pc = ph /\ loop.at = "enter" /\ loop'.at = "iter"

\* the phase dispatched before ph by Run
PhaseBefore(ph) ==
    CASE ph = "after_mount" -> "before_mount"
      [] ph = "before_server_start" -> "after_mount"
      [] ph = "shutdown" -> "before_server_start"

\* C11: every registered plugin, whenever it was registered, moves through
\* the phases in order without skipping one: when a phase is dispatched (its
\* dispatcher takes its snapshot of the plugins, and calls the hook of, or
\* passes over, each of them), every plugin it is dispatched for is a plugin
\* the phase before it was dispatched for.
C11_NoPhaseSkipped ==
    [][\A ph \in Phases \ {"before_mount"} :
          EntersPhase(ph) =>
              /\ LoggedPhase = PhaseBefore(ph)
              /\ PhaseEnded
              /\ Range(loop'.snapshot) \subseteq Range(loop.snapshot)]_vars

\* H2 was registered after the before-mount phase and the after-mount
\* phase has been dispatched for it
C11_Witness ==
    /\ LoggedPhase = "after_mount"
    /\ PhaseEnded
    /\ loop.snapshot = <<"H1", "H2">>
    /\ steps[4] = <<"before_mount", "end">>
    /\ Len(phaseLog) = 2 /\ phaseLog[1].p = "H2"

(***************************************************************************)
(* Concurrent calls of Register: each goroutine runs Register statement by *)
(* statement, under pm.mu from its second statement to its return.  A call *)
(* is entered in `last` by the step that decides what it returns.          *)
(***************************************************************************)
PluginOf(g) == PluginById(th[g].p)

InCall == {g \in Goroutines : th[g].pc # "idle"}

\* a goroutine calls Register(p), p not nil
CallRegister(g) ==
    /\ th[g].pc = "idle"
    /\ Len(plugins) + Cardinality(InCall) < MaxRegistered
    /\ \E p \in NamePlugins : th' = [th EXCEPT ![g] = [NoCall EXCEPT !.pc = "lock", !.p = p.id]]
    /\ UNCHANGED <<mu, config, pmVars, last, runVars, elsewhere>>

\* variant: the lock is taken whether it is held or not
LockNotExclusive(g) ==
    /\ th[g].pc = "lock"
    /\ mu' = g
    /\ th' = [th EXCEPT ![g].pc = "check"]
    /\ UNCHANGED <<config, pmVars, last, runVars, elsewhere>>

\* pm.mu.Lock()
Lock(g) ==
    /\ th[g].pc = "lock"
    /\ mu = "free"
    /\ mu' = g
    /\ th' = [th EXCEPT ![g].pc = "check"]
    /\ UNCHANGED <<config, pmVars, last, runVars, elsewhere>>

\* what Register returns before it reads the conflict mode (lines 96-133)
EarlyReturn(p) ==
    IF ~PluginEnabled(KeyOf(p)) THEN Nil
    ELSE IF Has(index, KeyOf(p)) THEN ErrDuplicatePlugin(KeyOf(p))
    ELSE IF VersionRejected(p) THEN ErrVersion(p.name)
    ELSE Proceed

\* the enabled check, the duplicate key check and the version check
CheckKey(g) ==
    /\ th[g].pc = "check"
    /\ IF EarlyReturn(PluginOf(g)) # Proceed
       THEN /\ last' = Called("Register", th[g].p, EarlyReturn(PluginOf(g)), FALSE)
            /\ th' = [th EXCEPT ![g].pc = "unlock"]
       ELSE /\ th' = [th EXCEPT ![g].pc = "resolve"]
            /\ last' = last
    /\ UNCHANGED <<mu, config, pmVars, runVars, elsewhere>>

\* the conflict mode, the alias override, the name conflict and the alias
\* uniqueness (lines 135-165)
ResolveConflict(g) ==
    /\ th[g].pc = "resolve"
    /\ LET p == PluginOf(g)
       IN  IF NameConflictRejected(p.name, KeyOf(p))
           THEN /\ last' = Called("Register", p.id, ErrDuplicatePlugin(p.name), FALSE)
                /\ th' = [th EXCEPT ![g].pc = "unlock"]
           ELSE /\ th' = [th EXCEPT ![g].pc = "init",
                                    ![g].a = ResolveAlias(p.name, KeyOf(p))]
                /\ last' = last
    /\ UNCHANGED <<mu, config, pmVars, runVars, elsewhere>>

\* p.Init(pm.engine)
CallInit(g) ==
    /\ th[g].pc = "init"
    /\ \E initErr \in BOOLEAN :
          IF initErr
          THEN /\ last' = Called("Register", th[g].p, ErrInit(PluginOf(g).name), TRUE)
               /\ th' = [th EXCEPT ![g].pc = "unlock", ![g].init = TRUE]
          ELSE /\ th' = [th EXCEPT ![g].pc = "update", ![g].init = TRUE]
               /\ last' = last
    /\ UNCHANGED <<mu, config, pmVars, runVars, elsewhere>>

\* the list and the indices are updated, return nil (lines 173-189)
UpdateIndices(g) ==
    /\ th[g].pc = "update"
    /\ LET p == PluginOf(g)
           key == KeyOf(p)
       IN  /\ plugins' = Append(plugins, p.id)
           /\ index' = Put(index, key, p.id)
           /\ nameIndex' = Put(nameIndex, p.name,
                               Append(Get(nameIndex, p.name, <<>>), key))
           /\ IF th[g].a # <<>>
              THEN /\ alias' = Put(alias, key, th[g].a)
                   /\ aliasIndex' = Put(aliasIndex, th[g].a, key)
              ELSE UNCHANGED <<alias, aliasIndex>>
           /\ last' = Called("Register", p.id, Nil, TRUE)
    /\ th' = [th EXCEPT ![g].pc = "unlock"]
    /\ UNCHANGED <<mu, config, runVars, elsewhere>>

\* defer pm.mu.Unlock(), and the call returns
Unlock(g) ==
    /\ th[g].pc = "unlock"
    /\ mu' = "free"
    /\ th' = [th EXCEPT ![g] = NoCall]
    /\ UNCHANGED <<config, pmVars, last, runVars, elsewhere>>

CallInitConfig ==
    \E m \in ConflictModes, k \in DOMAIN AliasChoices :
       \E v \in AliasChoices[k] :
          config = [InitConfig EXCEPT !.conflictMode = m,
                                      !.aliases = Put(EmptyMap, k, v)]

CallInit0 ==
    /\ CallInitConfig
    /\ InitManager
    /\ InitEngine
    /\ InitCalls
    /\ InitElsewhere

CallNext ==
    \E g \in Goroutines :
        \/ CallRegister(g)
        \/ Lock(g)
        \/ CheckKey(g)
        \/ ResolveConflict(g)
        \/ CallInit(g)
        \/ UpdateIndices(g)
        \/ Unlock(g)

CallSpec == CallInit0 /\ [][CallNext]_vars

\* the step decides what g's call returns
Decides(g) ==
    /\ th[g].pc \in {"check", "resolve", "init", "update"}
    /\ th'[g].pc = "unlock"

MaxInvokes == 1

\* the services ContainerMiddleware takes from the engine
SharedTypes == {"config", "logger", "db", "events", "pool", "enforcer"}

\* engine.Config(), engine.Logger(), ...: the instance the engine holds
EngineInstance(t) == <<"engine", t>>

\* GetRequestMeta(ctx): the request id and start time of this request
RequestMetaOf(r) == <<"meta", r>>

\* do.New(): a new injector object
NewContainer == [services |-> EmptyMap, down |-> 0]

\* do.ProvideValue(inj, v): v is registered under the name of its type
ProvideValue(c, t, v) == [c EXCEPT !.services = Put(c.services, t, v)]

\* the container a request gets before the rest of the chain runs
RequestContainer(r) ==
    LET c0 == NewContainer
        c1 == ProvideValue(c0, "config", EngineInstance("config"))
        c2 == ProvideValue(c1, "logger", EngineInstance("logger"))
        c3 == ProvideValue(c2, "db", EngineInstance("db"))
        c4 == ProvideValue(c3, "events", EngineInstance("events"))
        c5 == ProvideValue(c4, "pool", EngineInstance("pool"))
        c6 == ProvideValue(c5, "enforcer", EngineInstance("enforcer"))
    IN  ProvideValue(c6, "meta", RequestMetaOf(r))

\* variant: the injector created last, whatever the context
InjectorCreatedLast(r) == Len(containers)

\* Injector(ctx): the injector stored in this context under doInjectorKey
Injector(r) == reqs[r].inj

\* do.Invoke[T](inj): the value registered under T, or an error
Resolve(c, t) ==
    IF Has(c.services, t) THEN [ok |-> TRUE, v |-> c.services[t]]
    ELSE [ok |-> FALSE, v |-> <<>>]

\* the container middleware up to ctx.Next()
ContainerMiddlewareEnter(r) ==
    /\ reqs[r].pc = "idle"
    /\ containers' = Append(containers, RequestContainer(r))
    /\ reqs' = [reqs EXCEPT ![r].pc = "next", ![r].inj = Len(containers) + 1]
    /\ UNCHANGED build

\* a downstream handler resolves every type it can name from its injector
HandlerResolves(r) ==
    /\ reqs[r].pc = "next"
    /\ LET c == containers[Injector(r)]
           got == {<<t, Resolve(c, t).v>> :
                     t \in {x \in SharedTypes \cup {"meta", "local"} :
                               Resolve(c, x).ok}}
       IN  /\ ~(got \subseteq reqs[r].seen)
           /\ reqs' = [reqs EXCEPT ![r].seen = @ \cup got]
    /\ UNCHANGED <<build, containers>>

\* a downstream handler registers a value of its own in the request's injector
HandlerProvides(r) ==
    /\ reqs[r].pc = "next"
    /\ ~Has(containers[Injector(r)].services, "local")
    /\ containers' = [containers EXCEPT
                        ![Injector(r)] = ProvideValue(@, "local", <<"local", r>>)]
    /\ UNCHANGED <<build, reqs>>

\* Invoke of a use case from a downstream handler; ok: its resolution
\* succeeds, e: what the use case returns; inv is the call's outcome as its
\* caller sees it
InvokeUseCase(r, ok, e) ==
    /\ reqs[r].pc = "next"
    /\ reqs[r].n < MaxInvokes
    /\ IF ~ok
       THEN IF build = "MustInvokeStruct"
            THEN \* do.MustInvokeStruct panics
                 reqs' = [reqs EXCEPT ![r].pc = "recovered", ![r].end = "panic",
                                      ![r].n = @ + 1,
                                      ![r].inv = <<ok, "panic">>]
            ELSE reqs' = [reqs EXCEPT
                            ![r].errors = Append(@, "InternalServerError"),
                            ![r].n = @ + 1,
                            ![r].inv = <<ok, "resolve error">>]
       ELSE reqs' = [reqs EXCEPT
                       ![r].ran = @ + 1,
                       ![r].errors = IF e = "nil" THEN @ ELSE Append(@, e),
                       ![r].n = @ + 1,
                       ![r].inv = <<ok, e>>]
    /\ UNCHANGED <<build, containers>>

\* the rest of the chain ends: the last handler returns, a handler aborts the
\* chain and returns, or a handler panics
ChainEnds(r, how) ==
    /\ reqs[r].pc = "next"
    /\ reqs' = [reqs EXCEPT ![r].end = how,
                            ![r].pc = IF how = "panic" THEN "recovered"
                                      ELSE "after next"]
    /\ UNCHANGED <<build, containers>>

\* the container middleware after ctx.Next() has returned
ContainerMiddlewareExit(r) ==
    /\ reqs[r].pc = "after next"
    /\ containers' = [containers EXCEPT ![Injector(r)].down = @ + 1]
    /\ reqs' = [reqs EXCEPT ![r].pc = "done"]
    /\ UNCHANGED build

UseCaseErrors == {"nil", "business error"}

ChainEndings == {"return", "abort", "panic"}

ReqInit ==
    /\ config = InitConfig
    /\ InitManager
    /\ InitEngine
    /\ InitCalls
    /\ build \in Builds
    /\ InitRequests
    /\ InitMiddleware
    /\ InitErrorHandling
    /\ InitAuth
    /\ InitEvents
    /\ InitLazy
    /\ InitDyn

ReqNext ==
    /\ \E r \in Requests :
          \/ ContainerMiddlewareEnter(r)
          \/ HandlerResolves(r)
          \/ HandlerProvides(r)
          \/ \E e \in UseCaseErrors : InvokeUseCase(r, TRUE, e)
          \/ InvokeUseCase(r, FALSE, "nil")
          \/ \E how \in ChainEndings : ChainEnds(r, how)
          \/ ContainerMiddlewareExit(r)
    /\ UNCHANGED <<config, pmVars, last, runVars, callVars, mwVars, errVars, authVars,
                   evVars, engVars>>

ReqSpec == ReqInit /\ [][ReqNext]_vars

\* the rest of the chain of request r has ended, in whichever way
ChainEnded(r) == reqs[r].pc \in {"after next", "done", "recovered"}

\* the request has left the container middleware, by return or by a panic
\* that unwound through it to ginRecovery
LeftMiddleware(r) == reqs[r].pc \in {"done", "recovered"}

\* the number of Shutdown calls on the container of request r
Shutdowns(r) == containers[reqs[r].inj].down

\* C13: the container of every request that passed through the container
\* middleware is shut down exactly once, and only after the rest of the chain
\* has ended, whether the chain returned, was aborted, or a downstream handler
\* panicked.
C13_ShutdownExactlyOnce ==
    \A r \in Requests :
       reqs[r].inj # 0 =>
          /\ Shutdowns(r) <= 1
          /\ Shutdowns(r) = 1 => ChainEnded(r)
          /\ LeftMiddleware(r) => Shutdowns(r) = 1

C13_Witness ==
    /\ reqs["r1"].pc = "recovered"
    /\ reqs["r1"].end = "panic"
    /\ reqs["r1"].n = 0
    /\ Shutdowns("r1") = 0
    /\ reqs["r2"].pc = "done"
    /\ reqs["r2"].end = "abort"
    /\ Shutdowns("r2") = 1

\* what request r has resolved under type t so far
Resolved(r, t) == {x[2] : x \in {y \in reqs[r].seen : y[1] = t}}

\* C14: within a request every resolution of an engine shared service gives
\* the engine's instance; two requests, also concurrent ones, have distinct
\* containers, and a value registered in one request's container (its
\* RequestMeta included) is never resolved from another request's.
C14_RequestContainerIsolation ==
    /\ \A r \in Requests :
          /\ \A t \in SharedTypes :
                /\ Resolved(r, t) \subseteq {EngineInstance(t)}
                /\ reqs[r].seen # {} => Resolved(r, t) # {}
          /\ Resolved(r, "meta") \subseteq {RequestMetaOf(r)}
          /\ Resolved(r, "local") \subseteq {<<"local", r>>}
    /\ \A r1 \in Requests : \A r2 \in Requests \ {r1} :
          reqs[r1].inj # 0 => reqs[r1].inj # reqs[r2].inj

C14_Witness ==
    /\ \A r \in Requests :
          /\ reqs[r].pc = "next"
          /\ Resolved(r, "db") = {EngineInstance("db")}
          /\ Resolved(r, "meta") = {RequestMetaOf(r)}
    /\ Resolved("r1", "local") = {<<"local", "r1">>}
    /\ Resolved("r2", "local") = {}
    /\ Has(containers[reqs["r1"].inj].services, "local")

\* request r makes a call of Invoke in this step
Invokes(r) == reqs'[r].n = reqs[r].n + 1

\* C15: an Invoke whose use case cannot be resolved does not execute it and
\* records an internal error on the request's error list, the request going
\* on to the error handler; an Invoke whose use case is resolved and returns
\* an error appends that error to the error list exactly once and returns it.
C15_InvokeReportsErrors ==
    [][\A r \in Requests :
          Invokes(r) =>
             /\ ~reqs'[r].inv[1] =>
                   /\ reqs'[r].ran = reqs[r].ran
                   /\ reqs'[r].errors = Append(reqs[r].errors, "InternalServerError")
                   /\ reqs'[r].pc = "next"
             /\ (reqs'[r].inv[1] /\ reqs'[r].ran = reqs[r].ran + 1) =>
                   \/ /\ reqs'[r].inv[2] = "nil"
                      /\ reqs'[r].errors = reqs[r].errors
                   \/ /\ reqs'[r].inv[2] = "business error"
                      /\ reqs'[r].errors = Append(reqs[r].errors, "business error")]_vars

C15_Witness ==
    /\ build = "MustInvokeStruct"
    /\ reqs["r1"].inv = <<FALSE, "panic">>
    /\ reqs["r1"].pc = "recovered"
    /\ reqs["r1"].errors = <<>>
    /\ reqs["r1"].ran = 0
    /\ reqs["r2"].inv = <<TRUE, "business error">>
    /\ reqs["r2"].errors = <<"business error">>
    /\ reqs["r2"].ran = 1


(***************************************************************************)
(* The middleware registry.  A Go slice is a backing array and a length;   *)
(* two slices on one array see each other's writes, so the model keeps the *)
(* arrays in a heap and says of every operation which array its result     *)
(* lives on.                                                               *)
(***************************************************************************)
MaxList == 2

MaxFlat == 4

\* the elements of slice s
Elems(h, s) == [i \in 1..s.len |-> h[s.id][i]]

\* cap(s)
Cap(h, s) == IF s.id = 0 THEN 0 ELSE Len(h[s.id])

\* the id of a new array: the first one not in use
FreshId(h) ==
    CHOOSE i \in 1..(Cardinality(DOMAIN h) + 1) :
        /\ i \notin DOMAIN h
        /\ \A j \in 1..(i - 1) : j \in DOMAIN h

\* cells of an array beyond the length of the slice made on it
Unused(n) == [i \in 1..n |-> "nil"]

\* a slice on a new array holding elems, with spare cells after them
NewArray(h, elems, spare) ==
    IF Len(elems) = 0 THEN [heap |-> h, slice |-> NilSlice]
    ELSE LET id == FreshId(h)
         IN  [heap |-> h @@ (id :> (elems \o Unused(spare))),
              slice |-> [id |-> id, len |-> Len(elems)]]

\* append(s, elems...): in place when the array has room, else on a new
\* array; the array that replaces a full one has the spare capacity the
\* runtime chooses, the first array of an empty slice has none
append(h, s, elems, spare) ==
    IF Len(elems) = 0 THEN [heap |-> h, slice |-> s]
    ELSE IF s.len + Len(elems) <= Cap(h, s)
         THEN [heap |-> [h EXCEPT ![s.id] =
                           [i \in 1..Len(@) |->
                              IF i > s.len /\ i <= s.len + Len(elems)
                              THEN elems[i - s.len] ELSE @[i]]],
               slice |-> [s EXCEPT !.len = @ + Len(elems)]]
         ELSE NewArray(h, Elems(h, s) \o elems, IF s.len = 0 THEN 0 ELSE spare)

\* variant: the stored slice is returned, not a copy
NoCopy(h, s) == [heap |-> h, slice |-> s]

\* cp := make([]gin.HandlerFunc, len(s)); copy(cp, s)
MakeCopy(h, s) == NewArray(h, Elems(h, s), 0)

\* the group names in the order the arrays are numbered in
NameOrder == <<"a", "b", "c">>

\* the arrays the slices of the registry and of the caller are on, slice by
\* slice; 0 where there is no array
Roots(m, c) ==
    <<m.globals.id>>
       \o [k \in 1..Len(NameOrder) |-> Get(m.groups, NameOrder[k], NilSlice).id]
       \o <<c.got.id, c.arg.id>>

\* an array's address carries no meaning: an array is numbered by the place
\* of the first slice on it, 0 staying 0
Rank(R, x) ==
    IF x = 0 THEN 0
    ELSE LET first == CHOOSE i \in 1..Len(R) :
                         R[i] = x /\ \A j \in 1..(i - 1) : R[j] # x
         IN  Cardinality({R[j] : j \in 1..first} \ {0})

Renumbered(R, sl) == [sl EXCEPT !.id = Rank(R, @)]

\* the heap without the arrays no slice is on any more
Collect(h, R) ==
    [k \in {Rank(R, x) : x \in Range(R) \ {0}} |->
        h[CHOOSE x \in Range(R) \ {0} : Rank(R, x) = k]]

\* the registry, the caller and the heap after a call
CallReturns(op, name, args, err, m, h, c) ==
    LET R == Roots(m, c)
    IN  /\ mw' = [m EXCEPT !.globals = Renumbered(R, @),
                           !.groups = [n \in DOMAIN @ |-> Renumbered(R, @[n])]]
        /\ held' = [got |-> Renumbered(R, c.got), arg |-> Renumbered(R, c.arg)]
        /\ heap' = Collect(h, R)
        /\ mwLast' = [op |-> op, name |-> name, args |-> args, err |-> err]
    /\ UNCHANGED <<config, pmVars, last, runVars, callVars, reqVars, errVars, authVars,
                   evVars, engVars>>

\* the caller's own slice of handlers, passed as handlers...
Passed(hs) == NewArray(heap, hs, 0)

RegisterGlobal(hs, spare) ==
    LET a == Passed(hs)
        c == [held EXCEPT !.arg = a.slice]
        r == append(a.heap, mw.globals, hs, spare)
    IN  IF Len(hs) = 0
        THEN CallReturns("RegisterGlobal", "", <<>>, "nil", mw, a.heap, c)
        ELSE CallReturns("RegisterGlobal", "", <<>>, "nil",
                      [mw EXCEPT !.globals = r.slice], r.heap, c)

getGlobals ==
    LET r == MakeCopy(heap, mw.globals)
    IN  IF mw.globals.len = 0
        THEN CallReturns("getGlobals", "", <<>>, "nil", mw, heap,
                      [held EXCEPT !.got = NilSlice])
        ELSE CallReturns("getGlobals", "", <<>>, "nil", mw, r.heap,
                      [held EXCEPT !.got = r.slice])

\* variant: no duplicate check
RegisterSharedOverwrites(name, handler) ==
    IF name = "" \/ handler = "nil"
    THEN CallReturns("RegisterShared", name, <<handler>>, "ErrInvalidMerge", mw, heap, held)
    ELSE CallReturns("RegisterShared", name, <<handler>>, "nil",
                     [mw EXCEPT !.shared = Put(@, name, handler)], heap, held)

RegisterShared(name, handler) ==
    IF name = "" \/ handler = "nil"
    THEN CallReturns("RegisterShared", name, <<handler>>, "ErrInvalidMerge", mw, heap, held)
    ELSE IF Has(mw.shared, name)
    THEN CallReturns("RegisterShared", name, <<handler>>, "ErrDuplicateName", mw, heap, held)
    ELSE CallReturns("RegisterShared", name, <<handler>>, "nil",
                  [mw EXCEPT !.shared = Put(@, name, handler)], heap, held)

UpdateShared(name, handler) ==
    IF name = "" \/ handler = "nil"
    THEN CallReturns("UpdateShared", name, <<handler>>, "ErrInvalidMerge", mw, heap, held)
    ELSE IF ~Has(mw.shared, name)
    THEN CallReturns("UpdateShared", name, <<handler>>, "ErrNotFound", mw, heap, held)
    ELSE CallReturns("UpdateShared", name, <<handler>>, "nil",
                  [mw EXCEPT !.shared = Put(@, name, handler)], heap, held)

\* delete(m, k)
Delete(m, k) == [x \in (DOMAIN m) \ {k} |-> m[x]]

RemoveShared(name) ==
    IF ~Has(mw.shared, name)
    THEN CallReturns("RemoveShared", name, <<>>, "false", mw, heap, held)
    ELSE CallReturns("RemoveShared", name, <<>>, "true",
                  [mw EXCEPT !.shared = Delete(@, name)], heap, held)

CreateGroup(name, hs) ==
    LET a == Passed(hs)
        c == [held EXCEPT !.arg = a.slice]
        cp == append(a.heap, NilSlice, hs, 0)
    IN  IF name = ""
        THEN CallReturns("CreateGroup", name, <<>>, "ErrInvalidMerge", mw, a.heap, c)
        ELSE IF Has(mw.groups, name)
        THEN CallReturns("CreateGroup", name, <<>>, "ErrDuplicateName", mw, a.heap, c)
        ELSE CallReturns("CreateGroup", name, <<>>, "nil",
                      [mw EXCEPT !.groups = Put(@, name, cp.slice)], cp.heap, c)

\* the first of the names that is not a key of map m, 0 when all are
FirstMissing(m, names) ==
    IF \A i \in 1..Len(names) : Has(m, names[i]) THEN 0
    ELSE CHOOSE i \in 1..Len(names) :
            /\ ~Has(m, names[i])
            /\ \A j \in 1..(i - 1) : Has(m, names[j])

CreateGroupFromShared(name, sharedNames) ==
    LET handlers == NewArray(heap, [i \in 1..Len(sharedNames) |->
                                       mw.shared[sharedNames[i]]], 0)
    IN  IF name = ""
        THEN CallReturns("CreateGroupFromShared", name, sharedNames, "ErrInvalidMerge", mw, heap, held)
        ELSE IF Has(mw.groups, name)
        THEN CallReturns("CreateGroupFromShared", name, sharedNames, "ErrDuplicateName", mw, heap, held)
        ELSE IF FirstMissing(mw.shared, sharedNames) # 0
        THEN CallReturns("CreateGroupFromShared", name, sharedNames, "ErrNotFound", mw, heap, held)
        ELSE CallReturns("CreateGroupFromShared", name, sharedNames, "nil",
                      [mw EXCEPT !.groups = Put(@, name, handlers.slice)],
                      handlers.heap, held)

\* flattenGroupsLocked from its i-th name on: the handlers gathered, or the
\* error of the first name that was visited before or is not a group
RECURSIVE flattenFrom(_, _, _, _, _, _)
flattenFrom(m, h, groupNames, i, visited, result) ==
    IF i > Len(groupNames) THEN [result |-> result, err |-> "nil"]
    ELSE LET gn == groupNames[i]
         IN  IF gn \in visited THEN [result |-> <<>>, err |-> "ErrInvalidMerge"]
             ELSE IF ~Has(m.groups, gn) THEN [result |-> <<>>, err |-> "ErrNotFound"]
             ELSE flattenFrom(m, h, groupNames, i + 1, visited \cup {gn},
                              result \o Elems(h, m.groups[gn]))

\* variant: the groups are taken last to first
flattenGroupsBackwards(m, h, groupNames) ==
    flattenFrom(m, h, [i \in 1..Len(groupNames) |->
                          groupNames[Len(groupNames) + 1 - i]], 1, {}, <<>>)

flattenGroupsLocked(m, h, groupNames) == flattenFrom(m, h, groupNames, 1, {}, <<>>)

\* variant: an existing group is replaced
CreateGroupFromGroupsReplaces(name, groupNames, spare) ==
    LET f == flattenFrom(mw, heap, groupNames, 1, {}, <<>>)
        handlers == NewArray(heap, f.result,
                             IF Len(groupNames) > 1 THEN spare ELSE 0)
    IN  IF name = ""
        THEN CallReturns("CreateGroupFromGroups", name, groupNames, "ErrInvalidMerge", mw, heap, held)
        ELSE IF f.err # "nil"
        THEN CallReturns("CreateGroupFromGroups", name, groupNames, f.err, mw, heap, held)
        ELSE CallReturns("CreateGroupFromGroups", name, groupNames, "nil",
                         [mw EXCEPT !.groups = Put(@, name, handlers.slice)],
                         handlers.heap, held)

CreateGroupFromGroups(name, groupNames, spare) ==
    LET f == flattenGroupsLocked(mw, heap, groupNames)
        handlers == NewArray(heap, f.result,
                             IF Len(groupNames) > 1 THEN spare ELSE 0)
    IN  IF name = ""
        THEN CallReturns("CreateGroupFromGroups", name, groupNames, "ErrInvalidMerge", mw, heap, held)
        ELSE IF Has(mw.groups, name)
        THEN CallReturns("CreateGroupFromGroups", name, groupNames, "ErrDuplicateName", mw, heap, held)
        ELSE IF f.err # "nil"
        THEN CallReturns("CreateGroupFromGroups", name, groupNames, f.err, mw, heap, held)
        ELSE CallReturns("CreateGroupFromGroups", name, groupNames, "nil",
                      [mw EXCEPT !.groups = Put(@, name, handlers.slice)],
                      handlers.heap, held)

GetGroup(name) ==
    IF ~Has(mw.groups, name)
    THEN CallReturns("GetGroup", name, <<>>, "false", mw, heap,
                  [held EXCEPT !.got = NilSlice])
    ELSE LET cp == MakeCopy(heap, mw.groups[name])
         IN  CallReturns("GetGroup", name, <<>>, "true", mw, cp.heap,
                      [held EXCEPT !.got = cp.slice])

MustGroup(name) ==
    IF ~Has(mw.groups, name)
    THEN CallReturns("MustGroup", name, <<>>, "panic ErrNotFound", mw, heap, held)
    ELSE LET cp == MakeCopy(heap, mw.groups[name])
         IN  CallReturns("MustGroup", name, <<>>, "nil", mw, cp.heap,
                      [held EXCEPT !.got = cp.slice])

UpdateGroup(name, hs) ==
    LET a == Passed(hs)
        c == [held EXCEPT !.arg = a.slice]
        cp == append(a.heap, NilSlice, hs, 0)
    IN  IF name = ""
        THEN CallReturns("UpdateGroup", name, <<>>, "ErrInvalidMerge", mw, a.heap, c)
        ELSE IF ~Has(mw.groups, name)
        THEN CallReturns("UpdateGroup", name, <<>>, "ErrNotFound", mw, a.heap, c)
        ELSE CallReturns("UpdateGroup", name, <<>>, "nil",
                      [mw EXCEPT !.groups = Put(@, name, cp.slice)], cp.heap, c)

AppendToGroup(name, hs, spare) ==
    LET a == Passed(hs)
        c == [held EXCEPT !.arg = a.slice]
    IN  IF Len(hs) = 0
        THEN CallReturns("AppendToGroup", name, <<>>, "nil", mw, a.heap, c)
        ELSE IF ~Has(mw.groups, name)
        THEN CallReturns("AppendToGroup", name, <<>>, "ErrNotFound", mw, a.heap, c)
        ELSE LET r == append(a.heap, mw.groups[name], hs, spare)
             IN  CallReturns("AppendToGroup", name, <<>>, "nil",
                          [mw EXCEPT !.groups = Put(@, name, r.slice)], r.heap, c)

\* the loop of AppendSharedToGroup from its i-th name on: gs grows by one
\* append per name, until a name is not registered
RECURSIVE appendSharedFrom(_, _, _, _, _, _)
appendSharedFrom(m, h, gs, sharedNames, i, spare) ==
    IF i > Len(sharedNames) THEN [heap |-> h, slice |-> gs, err |-> "nil"]
    ELSE IF ~Has(m.shared, sharedNames[i])
    THEN [heap |-> h, slice |-> gs, err |-> "ErrNotFound"]
    ELSE LET r == append(h, gs, <<m.shared[sharedNames[i]]>>, spare)
         IN  appendSharedFrom(m, r.heap, r.slice, sharedNames, i + 1, spare)

AppendSharedToGroup(name, sharedNames, spare) ==
    IF Len(sharedNames) = 0
    THEN CallReturns("AppendSharedToGroup", name, sharedNames, "nil", mw, heap, held)
    ELSE IF ~Has(mw.groups, name)
    THEN CallReturns("AppendSharedToGroup", name, sharedNames, "ErrNotFound", mw, heap, held)
    ELSE LET r == appendSharedFrom(mw, heap, mw.groups[name], sharedNames, 1, spare)
         IN  IF r.err # "nil"
             THEN CallReturns("AppendSharedToGroup", name, sharedNames, r.err, mw, r.heap, held)
             ELSE CallReturns("AppendSharedToGroup", name, sharedNames, "nil",
                           [mw EXCEPT !.groups = Put(@, name, r.slice)], r.heap, held)

RemoveGroup(name) ==
    IF ~Has(mw.groups, name)
    THEN CallReturns("RemoveGroup", name, <<>>, "false", mw, heap, held)
    ELSE CallReturns("RemoveGroup", name, <<>>, "true",
                  [mw EXCEPT !.groups = Delete(@, name)], heap, held)

\* the caller assigns handler to element i of a list it holds: the list a
\* getter returned (got) or the slice it passed as handlers... (arg)
CallerWrites(which, i, handler) ==
    /\ i \in 1..held[which].len
    /\ heap' = [heap EXCEPT ![held[which].id][i] = handler]
    /\ mwLast' = [op |-> "write", name |-> which, args |-> <<handler>>, err |-> "nil"]
    /\ UNCHANGED <<mw, held>>
    /\ UNCHANGED <<config, pmVars, last, runVars, callVars, reqVars, errVars, authVars,
                   evVars, engVars>>

\* the handlers and the names callers use; "nil" is the nil handler, "hx" a
\* handler of the caller's that it never registers
Handlers == {"h1", "h2"}

HandlerLists == {<<>>, <<"h1">>, <<"h2", "h1">>}

SharedNames == {"", "s", "t"}

SharedNameLists == {<<>>, <<"s">>, <<"s", "t">>}

GroupNameLists ==
    {<<"a">>, <<"c">>, <<"a", "b">>, <<"b", "a">>, <<"a", "a">>, <<"b", "b", "a">>}

\* the spare capacity the runtime may give a new array
Spares == {0, 1}

MwInit ==
    /\ config = InitConfig
    /\ InitManager
    /\ InitEngine
    /\ InitCalls
    /\ InitElsewhere

\* callers of the shared namespace, next to one global list and one group
SharedNext ==
    \/ \E spare \in Spares :
          /\ mw.globals.len + 1 <= MaxList
          /\ RegisterGlobal(<<"h1">>, spare)
    \/ \E name \in SharedNames, handler \in Handlers \cup {"nil"} :
          RegisterShared(name, handler)
    \/ \E name \in SharedNames, handler \in Handlers \cup {"nil"} :
          UpdateShared(name, handler)
    \/ \E name \in SharedNames : RemoveShared(name)
    \/ \E name \in {"", "a"}, ns \in SharedNameLists :
          CreateGroupFromShared(name, ns)

SharedSpec == MwInit /\ [][SharedNext]_vars

\* callers that build groups from handlers and from other groups
GroupNext ==
    \/ \E name \in {"a", "b"}, hs \in HandlerLists \ {<<>>} :
          CreateGroup(name, hs)
    \/ \E name \in {"a", "c"}, ns \in GroupNameLists, spare \in Spares :
          /\ Len(flattenGroupsLocked(mw, heap, ns).result) <= MaxFlat
          /\ CreateGroupFromGroups(name, ns, spare)
    \/ CreateGroupFromGroups("", <<"a">>, 0)
    \/ GetGroup("c")
    \/ RemoveGroup("a")

GroupSpec == MwInit /\ [][GroupNext]_vars

\* a caller that reads lists, passes lists and writes to the lists it holds
CopyNext ==
    \/ \E spare \in Spares :
          /\ mw.globals.len + 1 <= MaxList
          /\ RegisterGlobal(<<"h1">>, spare)
    \/ getGlobals
    \/ RegisterShared("s", "h2")
    \/ CreateGroup("a", <<"h1">>)
    \/ GetGroup("a")
    \/ MustGroup("a")
    \/ UpdateGroup("a", <<"h2", "h1">>)
    \/ \E spare \in Spares :
          /\ Get(mw.groups, "a", NilSlice).len + 1 <= MaxList
          /\ AppendToGroup("a", <<"h1">>, spare)
    \/ \E spare \in Spares :
          /\ Get(mw.groups, "a", NilSlice).len + 1 <= MaxList
          /\ AppendSharedToGroup("a", <<"s">>, spare)
    \/ RemoveGroup("a")
    \/ \E which \in {"got", "arg"}, i \in 1..MaxList :
          CallerWrites(which, i, "hx")

CopySpec == MwInit /\ [][CopyNext]_vars

(***************************************************************************)
(* Properties of the middleware registry.                                  *)
(***************************************************************************)
\* the global handlers and the handlers of every group, as values
GlobalsView == Elems(heap, mw.globals)

GroupsView == [n \in DOMAIN mw.groups |-> Elems(heap, mw.groups[n])]

\* this step is a call of op
IsCall(op) == mwLast'.op = op

\* C16 as stated: RegisterShared stores the handler and returns nil whenever
\* the name is not registered, and returns ErrDuplicateName changing nothing
\* whenever it is; UpdateShared of an unregistered name returns ErrNotFound
\* and creates no entry.
C16_InsertIfAbsentForEveryArgument ==
    [][/\ IsCall("RegisterShared") =>
             IF ~Has(mw.shared, mwLast'.name)
             THEN /\ mwLast'.err = "nil"
                  /\ mw'.shared = Put(mw.shared, mwLast'.name, mwLast'.args[1])
             ELSE /\ mwLast'.err = "ErrDuplicateName"
                  /\ mw'.shared = mw.shared
                  /\ GlobalsView' = GlobalsView
                  /\ GroupsView' = GroupsView
       /\ (IsCall("UpdateShared") /\ ~Has(mw.shared, mwLast'.name)) =>
             /\ mwLast'.err = "ErrNotFound"
             /\ mw'.shared = mw.shared]_vars

\* the arguments RegisterShared and UpdateShared accept
ValidShared(name, handler) == name # "" /\ handler # "nil"

\* C16, amended: for a non-empty name and a non-nil handler RegisterShared is
\* insert-if-absent (nil and the handler stored when the name is free,
\* ErrDuplicateName and nothing changed when it is taken) and UpdateShared of
\* an unregistered name returns ErrNotFound and creates no entry; with an
\* empty name or a nil handler both return ErrInvalidMerge and change nothing.
C16_InsertIfAbsent ==
    [][/\ (IsCall("RegisterShared") \/ IsCall("UpdateShared")) =>
             /\ GlobalsView' = GlobalsView
             /\ GroupsView' = GroupsView
             /\ ~ValidShared(mwLast'.name, mwLast'.args[1]) =>
                   /\ mwLast'.err = "ErrInvalidMerge"
                   /\ mw'.shared = mw.shared
       /\ (IsCall("RegisterShared") /\ ValidShared(mwLast'.name, mwLast'.args[1])) =>
             IF ~Has(mw.shared, mwLast'.name)
             THEN /\ mwLast'.err = "nil"
                  /\ mw'.shared = Put(mw.shared, mwLast'.name, mwLast'.args[1])
             ELSE /\ mwLast'.err = "ErrDuplicateName"
                  /\ mw'.shared = mw.shared
       /\ (/\ IsCall("UpdateShared")
           /\ ValidShared(mwLast'.name, mwLast'.args[1])
           /\ ~Has(mw.shared, mwLast'.name)) =>
             /\ mwLast'.err = "ErrNotFound"
             /\ mw'.shared = mw.shared]_vars

C16_Witness ==
    /\ mwLast = [op |-> "RegisterShared", name |-> "s", args |-> <<"h2">>,
                 err |-> "ErrDuplicateName"]
    /\ mw.shared = Put(EmptyMap, "s", "h1")
    /\ GlobalsView = <<"h1">>
    /\ GroupsView = Put(EmptyMap, "a", <<"h1">>)

\* this step is CreateGroupFromGroups(n, g1, g2) for two groups that exist
\* and a name n that no group has
FlattensTwo ==
    /\ IsCall("CreateGroupFromGroups")
    /\ Len(mwLast'.args) = 2
    /\ Has(mw.groups, mwLast'.args[1])
    /\ Has(mw.groups, mwLast'.args[2])
    /\ ~Has(mw.groups, mwLast'.name)

\* the new group is the handlers of g1 followed by those of g2, and every
\* other group is as before
Concatenated ==
    /\ mwLast'.err = "nil"
    /\ GroupsView' = Put(GroupsView, mwLast'.name,
                         GroupsView[mwLast'.args[1]] \o GroupsView[mwLast'.args[2]])

\* GetGroup returns the handlers of the group, in their order
GetGroupReturnsGroup ==
    (IsCall("GetGroup") /\ Has(mw.groups, mwLast'.name)) =>
        /\ mwLast'.err = "true"
        /\ Elems(heap', held'.got) = GroupsView[mwLast'.name]
        /\ GroupsView' = GroupsView

\* C17 as stated: for all existing groups g1 and g2 and every unused name n,
\* CreateGroupFromGroups(n, g1, g2) succeeds and makes n the concatenation of
\* g1 and g2, which GetGroup(n) returns, g1 and g2 staying unchanged.
C17_FlattenAnyTwoGroups ==
    [][(FlattensTwo => Concatenated) /\ GetGroupReturnsGroup]_vars

\* C17, amended: for two different existing groups g1 and g2 and every unused
\* non-empty name n, CreateGroupFromGroups(n, g1, g2) succeeds and makes n the
\* concatenation of g1 and g2, which GetGroup(n) returns, g1 and g2 staying
\* unchanged; with g1 = g2 it returns ErrInvalidMerge and creates nothing.
C17_FlattenTwoGroups ==
    [][/\ FlattensTwo =>
             IF mwLast'.args[1] # mwLast'.args[2] /\ mwLast'.name # ""
             THEN Concatenated
             ELSE /\ mwLast'.err = "ErrInvalidMerge"
                  /\ GroupsView' = GroupsView
       /\ GetGroupReturnsGroup]_vars

C17_Witness ==
    /\ mwLast = [op |-> "GetGroup", name |-> "c", args |-> <<>>, err |-> "true"]
    /\ Elems(heap, held.got) = <<"h2", "h1", "h1">>
    /\ Has(mw.groups, "a") /\ GroupsView["a"] = <<"h1">>
    /\ Has(mw.groups, "b") /\ GroupsView["b"] = <<"h2", "h1">>
    /\ GroupsView["c"] = <<"h2", "h1", "h1">>

\* this step is a CreateGroupFromGroups that names the group to build among
\* the groups to flatten
FlattensIntoItself ==
    /\ IsCall("CreateGroupFromGroups")
    /\ mwLast'.name \in Range(mwLast'.args)

\* C18 as stated: every attempt to build a group by flattening it into itself
\* fails with ErrInvalidMerge, no group being created or changed.
C18_SelfFlattenIsInvalidMerge ==
    [][FlattensIntoItself =>
          /\ mwLast'.err = "ErrInvalidMerge"
          /\ GroupsView' = GroupsView]_vars

\* a name occurs twice in the list before the first occurrence of n
RepeatedBefore(names, n) ==
    \E i \in 1..Len(names) : \E j \in 1..(i - 1) :
        /\ names[i] = names[j]
        /\ \A k \in 1..i : names[k] # n

\* C18, amended: every CreateGroupFromGroups(n, ...) that names n among its
\* sources fails, no group being created or changed: with ErrDuplicateName
\* when n is a group, and when it is not with the error of the first source
\* that is missing or repeated, which is ErrNotFound unless a name is
\* repeated before n.  ErrInvalidMerge is the error of a repeated source (or
\* of an empty n), not of a self-reference.
C18_SelfFlattenFails ==
    [][FlattensIntoItself =>
          /\ GroupsView' = GroupsView
          /\ mwLast'.err # "nil"
          /\ Has(mw.groups, mwLast'.name) => mwLast'.err = "ErrDuplicateName"
          /\ ~Has(mw.groups, mwLast'.name) =>
                /\ mwLast'.err \in {"ErrNotFound", "ErrInvalidMerge"}
                /\ ~RepeatedBefore(mwLast'.args, mwLast'.name) =>
                      mwLast'.err = "ErrNotFound"]_vars

C18_Witness ==
    /\ mwLast = [op |-> "CreateGroupFromGroups", name |-> "a",
                 args |-> <<"a", "b">>, err |-> "ErrDuplicateName"]
    /\ GroupsView = [n \in {"a", "b", "c"} |->
                        IF n = "b" THEN <<"h1">> ELSE <<"h2", "h1", "h1">>]

\* the calls that return a handler list to the caller
Getters == {"getGlobals", "GetGroup", "MustGroup"}

\* the list the caller got from a getter, and the list it passed to a call
GotView == Elems(heap, held.got)

ArgView == Elems(heap, held.arg)

\* C19: the lists GetGroup, MustGroup and getGlobals return are copies: a
\* later call that changes the registry never changes a list already
\* returned; a caller's write to a returned list never changes what the
\* registry holds; and a caller's write to the slice it passed to CreateGroup
\* or UpdateGroup never changes the stored group.
C19_ListsAreCopies ==
    [][/\ (IsCall("GetGroup") \/ IsCall("MustGroup")) /\ Has(mw.groups, mwLast'.name) =>
             /\ GotView' = GroupsView[mwLast'.name]
             /\ GroupsView' = GroupsView
       /\ IsCall("getGlobals") =>
             /\ GotView' = GlobalsView
             /\ GlobalsView' = GlobalsView
       /\ (mwLast'.op \notin Getters \cup {"write"}) => GotView' = GotView
       /\ IsCall("write") =>
             /\ GlobalsView' = GlobalsView
             /\ GroupsView' = GroupsView
             /\ mw'.shared = mw.shared
             /\ \/ mwLast'.name = "got" /\ ArgView' = ArgView /\ "hx" \in Range(GotView')
                \/ mwLast'.name = "arg" /\ GotView' = GotView /\ "hx" \in Range(ArgView')]_vars

C19_Witness ==
    /\ mwLast.op = "write"
    /\ ArgView = <<"hx", "h1">>
    /\ GotView = <<"h2", "hx">>
    /\ GroupsView = Put(EmptyMap, "a", <<"h2", "h1">>)
    /\ GlobalsView = <<"h1", "h1">>
    /\ Cap(heap, mw.globals) = 3

(***************************************************************************)
(* Controllers: AddController before and during Run, and the mount.        *)
(***************************************************************************)
Controllers == {"c1", "c2", "c3"}

ProviderLists == {<<>>, <<"c1">>, <<"c2">>, <<"c2", "c3">>, <<"c3", "c1">>}

MountInit ==
    /\ \E m \in HookFailureModes : config = [InitConfig EXCEPT !.hookFailureMode = m]
    /\ InitManager
    /\ InitEngine
    /\ InitCalls
    /\ InitElsewhere

\* AddController with providers that were not added before
AddDisjointControllers ==
    /\ Alive
    /\ \E ps \in ProviderLists :
          /\ Range(ps) \cap Range(mount.registry) = {}
          /\ AddController(ps)

\* Run up to its after-mount hooks, with AddController and plugin
\* registrations before and during it
MountNext ==
    \/ AddDisjointControllers
    \/ RegisterHookPlugin
    \/ RunOptions
    \/ OnBeforeMount
    \/ mountControllers
    \/ OnAfterMount
    \/ mountControllersAgain

MountSpec == MountInit /\ [][MountNext]_vars

\* the providers called so far, in the order of the calls
Invoked == [i \in 1..Len(mount.mounted) |-> mount.mounted[i].c]

StartNext ==
    \/ AddDisjointControllers
    \/ RegisterHookPlugin
    \/ RunOptions
    \/ OnBeforeMount
    \/ mountControllers
    \/ OnAfterMount
    \/ initializeHTTPServer
    \/ OnBeforeServerStart
    \/ GoStartHTTPServer
    \/ startHTTPServer

StartSpec == MountInit /\ [][StartNext]_vars

\* the calls of RegisterRoutes that panicked and were recovered
Recovered == {i \in 1..Len(mount.mounted) : ~mount.mounted[i].ok}

\* the step is the mount of Run
MountStep == pc = "mount" /\ mount'.once /\ ~mount.once

CodeValidationFailed == 1001
CodeInvalidJSON == 1002
CodeUnauthorized == 2001
CodeForbidden == 2101
CodeNotFound == 3001
CodeAlreadyExists == 3002
CodeConflict == 3003
CodeRateLimited == 4001
CodeInternalError == 5001
CodeGatewayTimeout == 6002

\* the error types that implement HTTPStatus
HTTPStatusTypes ==
    {"*ValidationError", "*NotFoundError", "*ConflictError", "*RateLimitError",
     "*InvalidJSONError"}

HTTPStatusCode(type) ==
    CASE type = "*ValidationError" -> 400
      [] type = "*NotFoundError" -> 404
      [] type = "*ConflictError" -> 409
      [] type = "*RateLimitError" -> 429
      [] type = "*InvalidJSONError" -> 400

\* errors.As(err, &target) and errors.Is(err, target) follow the %w chain
ErrorsAs(err, type) == err.type = type

ErrorsIs(err, sentinel) == err.type = sentinel

\* variant: the interface is looked for along the %w chain, as errors.As does
ImplementsHTTPStatusUnwrapped(err) == err.type \in HTTPStatusTypes

\* hs, ok := err.(HTTPStatus): the assertion looks at err itself, and the
\* wrapper fmt.Errorf returns has no HTTPStatusCode method
ImplementsHTTPStatus(err) == ~err.wrapped /\ err.type \in HTTPStatusTypes

Response(code, message, details) ==
    [Code |-> code, Message |-> message, Details |-> details]

\* err.Error(): the text of the error, with the wrapper's prefix when wrapped
ErrorText(err) ==
    (IF err.wrapped THEN <<"prefix: ">> ELSE <<>>) \o <<err.type, err.arg>>

classifyError(err) ==
    IF ErrorsAs(err, "validator.ValidationErrors")
    THEN Response(CodeValidationFailed, <<"validation failed">>,
                  <<[Field |-> err.arg, Reason |-> "translated"]>>)
    ELSE IF ErrorsAs(err, "*ValidationError")
    THEN Response(CodeValidationFailed, <<"Message">>,
                  IF err.arg = "" THEN <<>>
                  ELSE <<[Field |-> err.arg, Reason |-> "Reason"]>>)
    ELSE IF ErrorsAs(err, "*NotFoundError")
    THEN Response(CodeNotFound,
                  IF err.arg # "" THEN <<"Resource", "[", err.arg, "]", " not found">>
                  ELSE <<"Resource", " not found">>,
                  <<>>)
    ELSE IF ErrorsAs(err, "*ConflictError")
    THEN Response(CodeConflict, <<"Message">>,
                  IF err.arg # "" THEN <<[Field |-> err.arg, Reason |-> "conflict"]>>
                  ELSE <<>>)
    ELSE IF ErrorsAs(err, "*RateLimitError")
    THEN Response(CodeRateLimited, <<"retry after ", err.arg>>,
                  <<[Field |-> "rate_limit", Reason |-> "limit"]>>)
    ELSE IF ErrorsAs(err, "*InvalidJSONError")
    THEN Response(CodeInvalidJSON, <<"invalid format">>,
                  <<[Field |-> "", Reason |-> err.arg]>>)
    ELSE IF ErrorsIs(err, "ErrUnauthorized")
    THEN Response(CodeUnauthorized, <<"unauthorized">>, <<>>)
    ELSE IF ErrorsIs(err, "ErrForbidden")
    THEN Response(CodeForbidden, <<"forbidden">>, <<>>)
    ELSE IF ErrorsIs(err, "gorm.ErrRecordNotFound")
    THEN Response(CodeNotFound, <<"record not found">>, <<>>)
    ELSE IF ErrorsIs(err, "gorm.ErrDuplicatedKey")
    THEN Response(CodeAlreadyExists, <<"record exists">>, <<>>)
    ELSE IF ErrorsIs(err, "context.DeadlineExceeded")
    THEN Response(CodeGatewayTimeout, <<"timeout">>, <<>>)
    ELSE IF ErrorsIs(err, "context.Canceled")
    THEN Response(CodeInternalError, <<"canceled">>, <<>>)
    ELSE Response(CodeValidationFailed, ErrorText(err), <<>>)

determineHTTPStatus(err) ==
    IF ImplementsHTTPStatus(err) THEN HTTPStatusCode(err.type)
    ELSE IF ErrorsIs(err, "ErrUnauthorized") THEN 401
    ELSE IF ErrorsIs(err, "ErrForbidden") THEN 403
    ELSE IF ErrorsIs(err, "gorm.ErrRecordNotFound") THEN 404
    ELSE IF ErrorsIs(err, "gorm.ErrDuplicatedKey") THEN 409
    ELSE IF ErrorsIs(err, "context.DeadlineExceeded") THEN 504
    ELSE IF ErrorsIs(err, "ErrInternalServerError") THEN 500
    ELSE 400

(***************************************************************************)
(* A request behind ginRecovery and the error handler middleware.  The     *)
(* sources hold two error handler middlewares: ErrorHandlerMiddleware      *)
(* (error_handler.go) classifies by itself, errorHandlerMiddleware asks    *)
(* the handlers of Engine.errorHandlers in order.                          *)
(***************************************************************************)
\* the largest number of errors the handlers of one request record
MaxErrors == 2

HandlerBuilds == {"ErrorHandlerMiddleware", "errorHandlerMiddleware"}

\* the errors the handlers of the chain record in this specification
ChainErrors ==
    {[type |-> "ErrForbidden", arg |-> "", wrapped |-> TRUE],
     [type |-> "*NotFoundError", arg |-> "7", wrapped |-> FALSE],
     [type |-> "errors.New", arg |-> "", wrapped |-> FALSE]}

\* the registered error handlers are told by the errors they answer
Answers(handler, err) ==
    CASE handler = "declines" -> FALSE
      [] handler = "sentinels" -> err.type \in {"ErrUnauthorized", "ErrForbidden"}
      [] handler = "classifies" -> TRUE

ErrorHandlerLists ==
    {<<>>, <<"declines">>, <<"sentinels">>, <<"declines", "classifies">>}

Written(by, status, resp) == [by |-> by, status |-> status, resp |-> resp]

\* the response body of a handler, and no body
Body == Response(0, <<"body">>, <<>>)
NoBody == Response(0, <<>>, <<>>)

\* ginRecovery and the error handler middleware have called ctx.Next()
RequestEnters ==
    /\ ctx.pc \in {"idle", "done", "recovered"}
    /\ ctx' = [NoContext EXCEPT !.pc = "next"]
    /\ UNCHANGED <<handlerBuild, errorHandlers>>

\* a handler of the chain calls ctx.Error(err)
HandlerRecordsError(err) ==
    /\ ctx.pc = "next" /\ ~ctx.aborted
    /\ Len(ctx.Errors) < MaxErrors
    /\ ctx' = [ctx EXCEPT !.Errors = Append(@, err)]
    /\ UNCHANGED <<handlerBuild, errorHandlers>>

\* a handler of the chain writes its response
HandlerWrites ==
    /\ ctx.pc = "next"
    /\ ctx.produced = <<>>
    /\ ctx' = [ctx EXCEPT !.written = Append(@, Written("handler", 200, Body)),
                          !.produced = Append(@, Written("handler", 200, Body))]
    /\ UNCHANGED <<handlerBuild, errorHandlers>>

\* the rest of the chain returns to the error handler middleware
ChainReturns ==
    /\ ctx.pc = "next"
    /\ ctx' = [ctx EXCEPT !.pc = "after next", !.returned = TRUE]
    /\ UNCHANGED <<handlerBuild, errorHandlers>>

\* ginRecovery's deferred function: c.AbortWithStatus(500)
Recovery(c) ==
    [c EXCEPT !.pc = "recovered",
              !.written = Append(@, Written("ginRecovery", 500, NoBody))]

\* a handler of the chain panics: the panic passes the error handler
\* middleware and ginRecovery recovers it
ChainPanics ==
    /\ ctx.pc = "next"
    /\ ctx' = Recovery(ctx)
    /\ UNCHANGED <<handlerBuild, errorHandlers>>

Last(errs) == errs[Len(errs)]

\* ctx.AbortWithStatusJSON(status, resp)
AbortWithStatusJSON(c, status, resp) ==
    [c EXCEPT !.pc = "done",
              !.written = Append(@, Written("errorHandler", status, resp))]

\* ErrorHandlerMiddleware after ctx.Next()
ErrorHandlerMiddlewareAfterNext(c) ==
    IF Len(c.Errors) = 0 THEN [c EXCEPT !.pc = "done"]
    ELSE LET err == Last(c.Errors)
         IN  AbortWithStatusJSON(c, determineHTTPStatus(err), classifyError(err))

\* errorHandlerMiddleware after ctx.Next()
errorHandlerMiddlewareAfterNext(c, handlers) ==
    IF Len(c.Errors) = 0 THEN [c EXCEPT !.pc = "done"]
    ELSE LET err == Last(c.Errors)
             answering == {i \in 1..Len(handlers) : Answers(handlers[i], err)}
         IN  IF Len(handlers) = 0 THEN [c EXCEPT !.pc = "done"]
             ELSE IF answering # {}
             THEN AbortWithStatusJSON(c, determineHTTPStatus(err), classifyError(err))
             ELSE Recovery(c)

ErrorHandlerAfterNext ==
    /\ ctx.pc = "after next"
    /\ ctx' = IF handlerBuild = "ErrorHandlerMiddleware"
              THEN ErrorHandlerMiddlewareAfterNext(ctx)
              ELSE errorHandlerMiddlewareAfterNext(ctx, errorHandlers)
    /\ UNCHANGED <<handlerBuild, errorHandlers>>

ErrorsInit ==
    /\ config = InitConfig
    /\ InitManager
    /\ InitEngine
    /\ InitCalls
    /\ build = "do.Invoke"
    /\ InitRequests
    /\ InitMiddleware
    /\ handlerBuild \in HandlerBuilds
    /\ errorHandlers \in ErrorHandlerLists
    /\ handlerBuild = "ErrorHandlerMiddleware" => errorHandlers = <<>>
    /\ ctx = NoContext
    /\ InitAuth
    /\ InitEvents
    /\ InitLazy
    /\ InitDyn

ErrorsNext ==
    /\ \/ RequestEnters
       \/ \E err \in ChainErrors : HandlerRecordsError(err)
       \/ HandlerWrites
       \/ ChainReturns
       \/ ChainPanics
       \/ ErrorHandlerAfterNext
    /\ UNCHANGED <<config, pmVars, last, runVars, callVars, reqVars, mwVars, authVars, evVars,
                   engVars>>

ErrorsSpec == ErrorsInit /\ [][ErrorsNext]_vars

\* the envelopes the error handler middleware wrote
Envelopes == SelectSeq(ctx.written, LAMBDA w : w.by = "errorHandler")

\* the chain returned and the request has left the error handler middleware
PassedErrorHandler == ctx.returned /\ ctx.pc \in {"done", "recovered"}

\* C22: the errors on the context are classified once and after the rest
\* of the chain: no envelope is written while the chain runs; when the
\* chain has returned with errors recorded, exactly one envelope is
\* written, the one of the last error; with no error recorded the response
\* is what the handlers wrote.
C22_ClassifiedOnce ==
    /\ ctx.pc = "next" => Envelopes = <<>>
    /\ PassedErrorHandler =>
          IF ctx.Errors # <<>>
          THEN /\ Len(Envelopes) = 1
               /\ Envelopes[1].resp = classifyError(Last(ctx.Errors))
               /\ Envelopes[1].status = determineHTTPStatus(Last(ctx.Errors))
          ELSE ctx.written = ctx.produced

\* two errors were recorded after the handler's response, and the envelope
\* of the second one is written after it
C22_Witness ==
    /\ PassedErrorHandler
    /\ Len(ctx.Errors) = 2 /\ ctx.Errors[1] # ctx.Errors[2]
    /\ Len(ctx.written) = 2
    /\ ctx.written[1].by = "handler"
    /\ ctx.written[2] = Written("errorHandler", 404, classifyError(ctx.Errors[2]))

(***************************************************************************)
(* AuthManager.ParseToken and AuthenticationMiddleware (abe_auth.go).      *)
(***************************************************************************)
Wrap(type) == [type |-> type, arg |-> "", wrapped |-> TRUE]

Sentinel(type) == [type |-> type, arg |-> "", wrapped |-> FALSE]

NoError == Sentinel("nil")

\* what the request carries as its Authorization header: none, one that is
\* not "Bearer <token>", or a bearer token; a token is told by what
\* GetAuthConfig and jwt.ParseWithClaims make of it
Authorizations ==
    {"no header", "bad format", "valid", "expired", "malformed", "bad signature",
     "wrong method", "no secret", "config error", "claims invalid"}

ParseToken(token) ==
    CASE token = "config error" -> Wrap("cfgErr")
      [] token = "no secret" -> Wrap("ErrInvalidSigningKey")
      [] token = "expired" -> Sentinel("ErrTokenExpired")
      [] token = "malformed" -> Wrap("jwt.ErrTokenMalformed")
      [] token = "bad signature" -> Wrap("jwt.ErrSignatureInvalid")
      [] token = "wrong method" -> Wrap("ErrInvalidSigningKey")
      [] token = "claims invalid" -> Sentinel("ErrInvalidToken")
      [] token = "valid" -> NoError

\* the error AuthenticationMiddleware records for the header, NoError when
\* it lets the request pass
AuthenticationError(authorization) ==
    IF authorization \in {"no header", "bad format"} THEN Wrap("ErrUnauthorized")
    ELSE LET err == ParseToken(authorization)
         IN  IF err = NoError THEN NoError
             ELSE IF ErrorsIs(err, "ErrTokenExpired") THEN Wrap("ErrTokenExpired")
             ELSE IF ErrorsIs(err, "ErrInvalidToken")
                     \/ ErrorsIs(err, "ErrInvalidSigningKey")
             THEN Wrap("ErrUnauthorized")
             ELSE Wrap("ErrInternalServerError")

\* ctx.Error(err); ctx.Abort(); return
ErrorAndAbort(c, err) ==
    [c EXCEPT !.Errors = Append(@, err), !.aborted = TRUE, !.at = "end"]

Users == {"u1", "u2"}

Roles == {"admin", "guest"}

\* the claims of the tokens of this specification
ClaimsChoices ==
    {[set |-> TRUE, UserID |-> u, Roles |-> rs, PrimaryRole |-> p] :
        u \in Users, rs \in {<<>>, <<"guest">>, <<"guest", "admin">>},
        p \in {"", "admin"}}

\* AuthenticationMiddleware up to its ctx.Next()
AuthenticationMiddleware(authorization, claims) ==
    /\ ctx.pc = "next" /\ ctx.at = "authn"
    /\ LET err == AuthenticationError(authorization)
       IN  ctx' = IF err # NoError THEN ErrorAndAbort(ctx, err)
                  ELSE [ctx EXCEPT !.claims = claims, !.at = "authz"]
    /\ UNCHANGED <<handlerBuild, errorHandlers>>

(***************************************************************************)
(* Classification of the errors of the framework: a request records the    *)
(* error of AuthenticationMiddleware or errors of the framework's types,   *)
(* and ErrorHandlerMiddleware answers.                                     *)
(***************************************************************************)
FrameworkErrorTypes ==
    {"validator.ValidationErrors", "*ValidationError", "*NotFoundError",
     "*ConflictError", "*RateLimitError", "*InvalidJSONError",
     "ErrUnauthorized", "ErrForbidden", "ErrInternalServerError",
     "ErrTokenExpired", "gorm.ErrRecordNotFound", "gorm.ErrDuplicatedKey",
     "context.DeadlineExceeded", "context.Canceled"}

FrameworkErrors ==
    {[type |-> t, arg |-> a, wrapped |-> w] :
        t \in FrameworkErrorTypes, a \in {"7"}, w \in BOOLEAN}
    \cup {[type |-> "*NotFoundError", arg |-> "", wrapped |-> FALSE]}

ClassifyInit ==
    /\ ErrorsInit
    /\ handlerBuild = "ErrorHandlerMiddleware"

ClassifyNext ==
    /\ \/ RequestEnters
       \/ \E a \in Authorizations : \E c \in ClaimsChoices :
             /\ a = "valid" => c.UserID = "u1" /\ c.Roles = <<>> /\ c.PrimaryRole = ""
             /\ AuthenticationMiddleware(a, c)
       \/ \E err \in FrameworkErrors : HandlerRecordsError(err)
       \/ ChainReturns
       \/ ErrorHandlerAfterNext
    /\ UNCHANGED <<config, pmVars, last, runVars, callVars, reqVars, mwVars, authVars, evVars,
                   engVars>>

ClassifySpec == ClassifyInit /\ [][ClassifyNext]_vars

\* the status and the family of business codes (code / 1000) that the
\* claim gives to an error; 0 where it names none
Meant(err) ==
    CASE err.type \in {"ErrUnauthorized", "ErrTokenExpired", "ErrInvalidToken"}
            -> [status |-> 401, family |-> 2]
      [] err.type = "ErrForbidden" -> [status |-> 403, family |-> 0]
      [] err.type \in {"*NotFoundError", "gorm.ErrRecordNotFound"}
            -> [status |-> 404, family |-> 0]
      [] err.type \in {"*ConflictError", "gorm.ErrDuplicatedKey"}
            -> [status |-> 409, family |-> 0]
      [] err.type = "*RateLimitError" -> [status |-> 429, family |-> 0]
      [] err.type = "ErrInternalServerError" -> [status |-> 500, family |-> 5]
      [] err.type = "context.DeadlineExceeded" -> [status |-> 504, family |-> 0]
      [] OTHER -> [status |-> 0, family |-> 0]

\* C23: the envelope of an error of the framework, wrapped or not, has the
\* status its meaning asks for, and its business code is of the family the
\* status goes with: 401 with 2xxx for unauthenticated, expired and invalid
\* tokens, 403, 404, 409, 429, 500 with 5xxx, 504.
C23_StatusMatchesIntent ==
    (PassedErrorHandler /\ ctx.Errors # <<>>) =>
        LET err == Last(ctx.Errors)
            m == Meant(err)
        IN  /\ Len(Envelopes) = 1
            /\ m.status # 0 => Envelopes[1].status = m.status
            /\ m.family # 0 => Envelopes[1].resp.Code \div 1000 = m.family

\* an unwrapped not-found error is answered with 404 and the code 3001
C23_Witness ==
    /\ PassedErrorHandler
    /\ ctx.Errors = <<[type |-> "*NotFoundError", arg |-> "7", wrapped |-> FALSE]>>
    /\ Envelopes[1].status = 404 /\ Envelopes[1].resp.Code = CodeNotFound

(***************************************************************************)
(* The authorization middlewares of AuthManager (abe_auth.go) and a route  *)
(* handler behind AuthenticationMiddleware and one of them.                *)
(***************************************************************************)
EncodeUserSub(userID) == <<"u:", userID>>

EncodeRoleSub(role) == <<"r:", role>>

makeMappingKey(method, path) == <<method, ":", path>>

Mapping(resource, action) == [Resource |-> resource, Action |-> action]

\* allowed, _ := am.enforcer.Enforce(sub, resource, action): a call that
\* fails returns false with its error
Enforce(subject, resource, action, failing) ==
    subject \notin failing /\ <<subject, resource, action>> \in enforcer

\* variant: the primary role is checked with the listed roles
RolesCheckedWithPrimary(claims) ==
    claims.Roles \o (IF claims.PrimaryRole # "" THEN <<claims.PrimaryRole>> ELSE <<>>)

\* roles := claims.Roles, or the primary role alone when there are none
RolesChecked(claims) ==
    IF Len(claims.Roles) = 0 /\ claims.PrimaryRole # ""
    THEN <<claims.PrimaryRole>>
    ELSE claims.Roles

\* the subjects checkPermission asks the enforcer about, in its order
SubjectsChecked(claims) ==
    <<EncodeUserSub(claims.UserID)>>
    \o [i \in 1..Len(RolesChecked(claims)) |-> EncodeRoleSub(RolesChecked(claims)[i])]

\* the subject whose Enforce call made checkPermission return true, or <<>>
FirstAllowing(claims, resource, action, failing) ==
    LET subs == SubjectsChecked(claims)
        ok == {i \in 1..Len(subs) : Enforce(subs[i], resource, action, failing)}
    IN  IF ok = {} THEN <<>>
        ELSE subs[CHOOSE i \in ok : \A j \in ok : i <= j]

checkPermission(claims, resource, action, failing) ==
    FirstAllowing(claims, resource, action, failing) # <<>>

\* claims, ok := getUserClaimsOrAbort(ctx)
getUserClaimsOrAbort(c) ==
    IF c.claims.set THEN c ELSE ErrorAndAbort(c, Wrap("ErrUnauthorized"))

\* the check that ends the three middlewares, and their ctx.Next()
CheckAndNext(c, resource, action, failing) ==
    IF ~checkPermission(c.claims, resource, action, failing)
    THEN ErrorAndAbort(c, Wrap("ErrForbidden"))
    ELSE [c EXCEPT !.at = "handler",
                   !.allowedBy = FirstAllowing(c.claims, resource, action, failing)]

ResourceAuthorizationMiddleware(c, resource, action, failing) ==
    IF getUserClaimsOrAbort(c).aborted THEN getUserClaimsOrAbort(c)
    ELSE CheckAndNext(c, resource, action, failing)

PathAuthorizationMiddleware(c, mapper(_, _), failing) ==
    IF getUserClaimsOrAbort(c).aborted THEN getUserClaimsOrAbort(c)
    ELSE LET found == mapper(c.route.method, c.route.path)
         IN  IF ~found.found THEN ErrorAndAbort(c, Wrap("ErrForbidden"))
             ELSE CheckAndNext(c, found.resource, found.action, failing)

\* value, ok := am.mappingCache.Load(key)
getAPIPermissionMapping(method, path) ==
    LET key == makeMappingKey(method, path)
    IN  IF Has(mappingCache, key)
        THEN [mapping |-> mappingCache[key], err |-> FALSE]
        ELSE [mapping |-> Mapping("", ""), err |-> TRUE]

AutoAuthorizationMiddleware(c, failing) ==
    IF getUserClaimsOrAbort(c).aborted THEN getUserClaimsOrAbort(c)
    ELSE LET got == getAPIPermissionMapping(c.route.method, c.route.path)
         IN  IF got.err THEN ErrorAndAbort(c, Wrap("ErrForbidden"))
             ELSE CheckAndNext(c, got.mapping.Resource, got.mapping.Action, failing)

\* the routes of this specification: the kind tells the authorization
\* middleware of the route
RouteKinds == {"Resource", "Path", "Auto"}

Routes ==
    {[kind |-> k, method |-> "GET", path |-> p] : k \in RouteKinds, p \in {"/a", "/b"}}

\* the arguments of ResourceAuthorizationMiddleware(resource, action)
Guarded == [resource |-> "doc", action |-> "read"]

\* the mapper given to PathAuthorizationMiddleware
Mapper(method, path) ==
    IF path = "/a" THEN [resource |-> "doc", action |-> "read", found |-> TRUE]
    ELSE [resource |-> "", action |-> "", found |-> FALSE]

\* a request for the route has passed ginRecovery and the error handler
RequestEntersRoute(route) ==
    /\ ctx.pc \in {"idle", "done", "recovered"}
    /\ ctx' = [NoContext EXCEPT !.pc = "next", !.route = route]
    /\ UNCHANGED <<handlerBuild, errorHandlers>>

\* the authorization middleware of the route, up to its ctx.Next()
AuthorizationMiddleware(failing) ==
    /\ ctx.pc = "next" /\ ctx.at = "authz"
    /\ ctx' = CASE ctx.route.kind = "Resource" ->
                      ResourceAuthorizationMiddleware(ctx, Guarded.resource,
                                                      Guarded.action, failing)
                [] ctx.route.kind = "Path" ->
                      PathAuthorizationMiddleware(ctx, Mapper, failing)
                [] ctx.route.kind = "Auto" ->
                      AutoAuthorizationMiddleware(ctx, failing)
    /\ UNCHANGED <<handlerBuild, errorHandlers>>

\* the route handler runs and writes its response
RouteHandler ==
    /\ ctx.pc = "next" /\ ctx.at = "handler"
    /\ ctx' = [ctx EXCEPT !.ran = @ + 1, !.at = "end",
                          !.written = Append(@, Written("handler", 200, Body)),
                          !.produced = Append(@, Written("handler", 200, Body))]
    /\ UNCHANGED <<handlerBuild, errorHandlers>>

Policies ==
    {{},
     {<<EncodeUserSub("u1"), "doc", "read">>},
     {<<EncodeRoleSub("admin"), "doc", "read">>},
     {<<EncodeRoleSub("guest"), "doc", "write">>, <<EncodeUserSub("u2"), "doc", "read">>}}

Caches ==
    {EmptyMap,
     [k \in {makeMappingKey("GET", "/a")} |-> Mapping("doc", "read")]}

AllSubjects ==
    {EncodeUserSub(u) : u \in Users} \cup {EncodeRoleSub(r) : r \in Roles}

AuthInit ==
    /\ config = InitConfig
    /\ InitManager
    /\ InitEngine
    /\ InitCalls
    /\ build = "do.Invoke"
    /\ InitRequests
    /\ InitMiddleware
    /\ InitErrorHandling
    /\ enforcer \in Policies
    /\ mappingCache \in Caches
    /\ mappingsDB = EmptyMap
    /\ loader = NoLoad
    /\ InitEvents
    /\ InitLazy
    /\ InitDyn

AuthNext ==
    /\ \/ \E route \in Routes : RequestEntersRoute(route)
       \/ \E a \in Authorizations : \E c \in ClaimsChoices : AuthenticationMiddleware(a, c)
       \/ \E failing \in SUBSET AllSubjects : AuthorizationMiddleware(failing)
       \/ RouteHandler
       \/ ctx.at = "end" /\ ChainReturns
       \/ ErrorHandlerAfterNext
    /\ UNCHANGED <<config, pmVars, last, runVars, callVars, reqVars, mwVars, authVars, evVars,
                   engVars>>

AuthSpec == AuthInit /\ [][AuthNext]_vars

\* the (resource, action) the request's route asks for, if it names one
Required ==
    CASE ctx.route.kind = "Resource" ->
            [resource |-> "doc", action |-> "read", found |-> TRUE]
      [] ctx.route.kind = "Path" ->
            [resource |-> "doc", action |-> "read", found |-> ctx.route.path = "/a"]
      [] ctx.route.kind = "Auto" ->
            LET key == <<ctx.route.method, ":", ctx.route.path>>
            IN  IF key \in DOMAIN mappingCache
                THEN [resource |-> mappingCache[key].Resource,
                      action |-> mappingCache[key].Action, found |-> TRUE]
                ELSE [resource |-> "", action |-> "", found |-> FALSE]
      [] OTHER -> [resource |-> "", action |-> "", found |-> FALSE]

\* the subjects of the authenticated user: the user, the listed roles, and
\* the primary role when no role is listed
OwnSubjects ==
    {<<"u:", ctx.claims.UserID>>}
    \cup {<<"r:", ctx.claims.Roles[i]>> : i \in 1..Len(ctx.claims.Roles)}
    \cup (IF ctx.claims.Roles = <<>> /\ ctx.claims.PrimaryRole # ""
          THEN {<<"r:", ctx.claims.PrimaryRole>>} ELSE {})

\* the token was parsed and the enforcer allowed what the route asks for
\* to one of the user's subjects
Permitted ==
    /\ ctx.claims.set
    /\ Required.found
    /\ ctx.allowedBy \in OwnSubjects
    /\ <<ctx.allowedBy, Required.resource, Required.action>> \in enforcer

\* C24: the handler of a route behind AuthenticationMiddleware and an
\* authorization middleware runs only for a request whose token was parsed
\* and to which the enforcer allowed the route's (resource, action) for the
\* user or one of the roles; every other request is aborted with an error
\* recorded, and its handler does not run.
C24_HandlerOnlyWhenPermitted ==
    /\ (ctx.at = "handler" \/ ctx.ran > 0) => Permitted /\ ~ctx.aborted /\ ctx.ran <= 1
    /\ (ctx.at = "end" /\ ctx.ran = 0) => ctx.aborted /\ ctx.Errors # <<>>
    /\ ctx.aborted => ctx.ran = 0 /\ ctx.at = "end"

\* the handler of an Auto route ran for a user without listed roles whose
\* primary role is allowed
C24_Witness ==
    /\ ctx.pc = "done" /\ ctx.ran = 1
    /\ ctx.route.kind = "Auto"
    /\ ctx.claims.Roles = <<>>
    /\ ctx.allowedBy = <<"r:", "admin">>
    /\ ctx.Errors = <<>>

(***************************************************************************)
(* goChannelBus.Subscribe, the goroutines it starts and                    *)
(* Subscription.Unsubscribe (abe_event.go).                                *)
(***************************************************************************)
\* the largest concurrency a subscription asks for
MaxConcurrency == 2

\* the largest number of messages published
MaxMessages == 2

\* the subscription is made without an option or with WithConcurrency(n)
ConcurrencyOptions == {<<>>} \cup {<<n>> : n \in (-1)..MaxConcurrency}

\* WithConcurrency(n): if n <= 0 { n = 1 }
WithConcurrency(n) == IF n <= 0 THEN 1 ELSE n

\* cfg := &subscribeConfig{concurrency: 1}; the options; the second guard
concurrency(opts) ==
    LET c == IF opts = <<>> THEN 1 ELSE WithConcurrency(opts[Len(opts)])
    IN  IF c <= 0 THEN 1 ELSE c

\* Subscribe: the channel is open and the goroutines are started, each
\* after s.wg.Add(1)
Subscribe(opts) ==
    /\ sub.state = "none"
    /\ sub' = [sub EXCEPT !.state = "subscribed", !.opts = opts, !.wg = concurrency(opts)]
    /\ workers' = [w \in 1..concurrency(opts) |-> [pc |-> "select", msg |-> 0]]
    /\ UNCHANGED <<ch, acks>>

\* a message is published on the topic and reaches the channel
Publish ==
    /\ sub.state = "subscribed" /\ ~ch.closed /\ ~sub.cancelled
    /\ ch.published < MaxMessages
    /\ ch' = [ch EXCEPT !.queue = Append(@, ch.published + 1), !.published = @ + 1]
    /\ UNCHANGED <<sub, workers, acks>>

\* case msg, ok := <-ch with ok: the goroutine calls the handler; select
\* may take this case also when ctxSub is done
WorkerReceives(w) ==
    /\ workers[w].pc = "select"
    /\ Len(ch.queue) > 0
    /\ workers' = [workers EXCEPT ![w] = [pc |-> "handler", msg |-> Head(ch.queue)]]
    /\ ch' = [ch EXCEPT !.queue = Tail(@)]
    /\ acks' = [acks EXCEPT !.started = @ + 1]
    /\ UNCHANGED sub

\* the handler returns: msg.Nack() for an error, msg.Ack() for nil
WorkerHandlerReturns(w, err) ==
    /\ workers[w].pc = "handler"
    /\ acks' = [acks EXCEPT !.done = Append(@, [msg |-> workers[w].msg, w |-> w,
                                                err |-> err,
                                                sent |-> IF err # "nil" THEN "Nack"
                                                         ELSE "Ack"])]
    /\ workers' = [workers EXCEPT ![w] = [pc |-> "select", msg |-> 0]]
    /\ UNCHANGED <<sub, ch>>

\* case <-ctxSub.Done(), or the channel is closed and empty: return, and
\* the deferred s.wg.Done()
WorkerExits(w) ==
    /\ workers[w].pc = "select"
    /\ sub.cancelled \/ (ch.closed /\ Len(ch.queue) = 0)
    /\ workers' = [workers EXCEPT ![w] = [pc |-> "exited", msg |-> 0]]
    /\ sub' = [sub EXCEPT !.wg = @ - 1]
    /\ UNCHANGED <<ch, acks>>

\* goChannelBus.Close(): the channel of the subscription is closed
BusClose ==
    /\ sub.state = "subscribed" /\ ~ch.closed
    /\ ch' = [ch EXCEPT !.closed = TRUE]
    /\ UNCHANGED <<sub, workers, acks>>

\* Unsubscribe: s.cancel()
UnsubscribeCancel ==
    /\ sub.state = "subscribed" /\ sub.unsub = "idle"
    /\ sub' = [sub EXCEPT !.cancelled = TRUE, !.unsub = "wait"]
    /\ UNCHANGED <<workers, ch, acks>>

\* variant: Unsubscribe returns after the cancel
NoWait(wg) == TRUE

\* s.wg.Wait() returns when the counter is zero
Wait(wg) == wg = 0

\* Unsubscribe: s.wg.Wait() and the return
UnsubscribeReturns ==
    /\ sub.unsub = "wait"
    /\ Wait(sub.wg)
    /\ sub' = [sub EXCEPT !.unsub = "returned"]
    /\ UNCHANGED <<workers, ch, acks>>

HandlerResults == {"nil", "error"}

EventsInit ==
    /\ config = InitConfig
    /\ InitManager
    /\ InitEngine
    /\ InitCalls
    /\ build = "do.Invoke"
    /\ InitRequests
    /\ InitMiddleware
    /\ InitErrorHandling
    /\ InitAuth
    /\ InitEvents
    /\ InitLazy
    /\ InitDyn

EventsNext ==
    /\ \/ \E opts \in ConcurrencyOptions : Subscribe(opts)
       \/ Publish
       \/ \E w \in DOMAIN workers : WorkerReceives(w)
       \/ \E w \in DOMAIN workers : \E err \in HandlerResults : WorkerHandlerReturns(w, err)
       \/ \E w \in DOMAIN workers : WorkerExits(w)
       \/ BusClose
       \/ UnsubscribeCancel
       \/ UnsubscribeReturns
    /\ UNCHANGED <<config, pmVars, last, runVars, callVars, reqVars, mwVars, errVars,
                   authVars, engVars>>

EventsSpec == EventsInit /\ [][EventsNext]_vars

\* the goroutines that are in the handler
InHandler == {w \in DOMAIN workers : workers[w].pc = "handler"}

\* C25: a subscription has as many goroutines as its concurrency, one when
\* none or less than one is asked for; once Unsubscribe has returned all of
\* them have ended, none is in the handler and no handler call starts; and
\* every handler call that returned was followed by exactly one of Ack and
\* Nack, Ack for nil and Nack for an error.
C25_UnsubscribeWaits ==
    [][/\ sub'.state = "subscribed" =>
             Cardinality(DOMAIN workers') =
                IF sub'.opts = <<>> THEN 1
                ELSE IF sub'.opts[1] < 1 THEN 1 ELSE sub'.opts[1]
       /\ sub'.unsub = "returned" =>
             /\ \A w \in DOMAIN workers' : workers'[w].pc = "exited"
             /\ sub'.cancelled
       /\ sub.unsub = "returned" => acks' = acks /\ workers' = workers
       /\ Len(acks'.done) + Cardinality(InHandler') = acks'.started
       /\ \A i \in 1..Len(acks'.done) :
             acks'.done[i].sent = IF acks'.done[i].err = "nil" THEN "Ack" ELSE "Nack"]_vars

\* Unsubscribe returned after two goroutines handled a message each, the
\* first with an error
C25_Witness ==
    /\ sub.unsub = "returned"
    /\ sub.opts = <<2>>
    /\ Len(acks.done) = 2
    /\ acks.done[1].sent = "Nack" /\ acks.done[2].sent = "Ack"
    /\ acks.done[1].w # acks.done[2].w

(***************************************************************************)
(* Registrations whose Init fails, before and during Run: plugins with     *)
(* hooks and two plugins of one name, each Register with either outcome of *)
(* Init, and Run from its options to the end of the shutdown hooks.        *)
(***************************************************************************)
RetryPlugins == HookPlugins \cup {PB, PD}

RetryInit ==
    /\ \E m \in HookFailureModes : config = [InitConfig EXCEPT !.hookFailureMode = m]
    /\ InitManager
    /\ InitEngine
    /\ InitCalls
    /\ InitElsewhere

\* a Register call, before Run or while it runs
RegisterDuringRun ==
    /\ Alive
    /\ \E p \in RetryPlugins : Register(p)
    /\ UNCHANGED <<runVars, callVars, elsewhere>>

RetryNext ==
    \/ RegisterDuringRun
    \/ RunOptions
    \/ OnBeforeMount
    \/ mountControllers
    \/ OnAfterMount
    \/ initializeHTTPServer
    \/ OnBeforeServerStart
    \/ GoStartHTTPServer
    \/ Signal
    \/ OnShutdown

RetrySpec == RetryInit /\ [][RetryNext]_vars

\* the step is a Register call in which Init returned an error
InitFails == last'.op = "Register" /\ last'.init /\ last'.ret.kind = "init"

\* C26: a Register whose Init returns an error returns that error and
\* leaves the list, the key index, the alias maps and the name index as
\* they were; no hook is called for a plugin that is not in the list; a
\* Register of a plugin that is not in the list is never answered as a
\* duplicate of its key, and the Register that follows a failed one for
\* the same plugin calls Init again.
C26_FailedInitLeavesNoTrace ==
    [][/\ InitFails =>
             /\ pmVars' = pmVars
             /\ last'.ret = ErrInit(PluginById(last'.p).name)
       /\ \A k \in 1..Len(phaseLog') : phaseLog'[k].p \in Range(plugins')
       /\ (last'.op = "Register" /\ last'.p \notin Range(plugins)
           /\ last'.p \in {q.id : q \in RetryPlugins}) =>
             last'.ret # ErrDuplicatePlugin(KeyOfId(last'.p))
       /\ (last.op = "Register" /\ last.ret.kind = "init"
           /\ last'.op = "Register" /\ last'.p = last.p) =>
             last'.init /\ last'.ret.kind \in {"nil", "init"}]_vars

\* B, H2 and D, with an alias, are registered; the last call is a Register
\* of H1 whose Init failed, and Run is in its before-server-start hooks
C26_Witness ==
    /\ plugins = <<"B", "H2", "D">>
    /\ Has(alias, KeyOf(PD))
    /\ last = Called("Register", "H1", ErrInit(H1.name), TRUE)
    /\ pc = "before_server_start"
    /\ Len(phaseLog) > 0

(***************************************************************************)
(* Display names: registrations of two plugins of one name and of a plugin *)
(* whose name is of the form name@source, under every conflict mode and    *)
(* with plugins.aliases.<key> set or not for two of them.                  *)
(***************************************************************************)
DisplayPlugins == {PB, PD, PE}

\* values drawn for plugins.aliases.<key> of D and E
DisplayAliasChoices == {<<>>, <<"X">>, <<"Z">>}

\* ResolveDisplayNameByKey (lines 352-363); <<>> is ""
ResolveDisplayNameByKey(key) ==
    IF Has(alias, key) /\ alias[key] # <<>> THEN alias[key]
    ELSE IF Has(index, key) THEN PluginById(index[key]).name
    ELSE <<>>

NotFound == [p |-> "nil", ok |-> FALSE]

\* LookupByAliasOrName (lines 380-393)
LookupByAliasOrName(s) ==
    IF Has(aliasIndex, s) THEN [p |-> index[aliasIndex[s]], ok |-> TRUE]
    ELSE LET keys == Get(nameIndex, s, <<>>)
         IN  IF Len(keys) = 1 THEN [p |-> index[keys[1]], ok |-> TRUE]
             ELSE NotFound

DisplayInit ==
    /\ \E mode \in ConflictModes, d \in DisplayAliasChoices, e \in DisplayAliasChoices :
          config = [InitConfig EXCEPT
                       !.conflictMode = mode,
                       !.aliases = Put(Put(EmptyMap, KeyOf(PD), d), KeyOf(PE), e)]
    /\ InitManager
    /\ InitEngine
    /\ InitCalls
    /\ InitElsewhere

DisplayRegister ==
    /\ \E p \in DisplayPlugins : Register(p)
    /\ UNCHANGED <<runVars, callVars, elsewhere>>

DisplayNext == DisplayRegister

DisplaySpec == DisplayInit /\ [][DisplayNext]_vars

\* the strings under which registered plugins are displayed
DisplayNames == {ResolveDisplayNameByKey(KeyOfId(plugins[i])) : i \in 1..Len(plugins)}

\* the registered plugins displayed as s
DisplayedAs(s) ==
    {plugins[i] : i \in {j \in 1..Len(plugins) :
                            ResolveDisplayNameByKey(KeyOfId(plugins[j])) = s}}

\* C27: the display names of the registered plugins are pairwise distinct,
\* and LookupByAliasOrName(s) never returns one plugin while another
\* registered plugin is displayed as s.
C27_DisplayNamesDistinct ==
    /\ \A i \in 1..Len(plugins) : \A j \in 1..Len(plugins) :
          i # j => ResolveDisplayNameByKey(KeyOfId(plugins[i]))
                     # ResolveDisplayNameByKey(KeyOfId(plugins[j]))
    /\ \A s \in DisplayNames :
          LookupByAliasOrName(s).ok => DisplayedAs(s) = {LookupByAliasOrName(s).p}

\* B, D and E were registered with no alias configured: D got the alias
\* X@pkgB, E is displayed by its name X@pkgB, the lookup of X@pkgB gives D
C27_Witness ==
    /\ plugins = <<"B", "D", "E">>
    /\ config.aliases = Put(Put(EmptyMap, KeyOf(PD), <<>>), KeyOf(PE), <<>>)
    /\ ResolveDisplayNameByKey(KeyOf(PD)) = XatPkgB
    /\ ResolveDisplayNameByKey(KeyOf(PE)) = XatPkgB
    /\ LookupByAliasOrName(XatPkgB) = [p |-> "D", ok |-> TRUE]

(***************************************************************************)
(* Engine.Plugins(): the manager is created on the first call, with no     *)
(* lock or once around the test and the store of e.plugins.  Each read and *)
(* each write of the field is a step; the goroutine of Run calls Plugins() *)
(* before each hook dispatch, two other goroutines call it to register a   *)
(* plugin each.                                                            *)
(***************************************************************************)
MaxPluginsCalls == 2

\* the plugin each registering goroutine registers
PluginOfCaller(g) == IF g = "g1" THEN "H1" ELSE "H2"

\* if e.plugins == nil (line 127)
PluginsTest(g) ==
    /\ lazy.gor[g].pc = "idle"
    /\ lazy.gor[g].calls < MaxPluginsCalls
    /\ lazy' = [lazy EXCEPT
                  !.gor[g].pc = IF lazy.field = 0 THEN "new" ELSE "return",
                  !.gor[g].calls = @ + 1]

\* e.plugins = newPluginManager(e) (line 128; plugin.go:72-80)
PluginsStore(g) ==
    /\ lazy.gor[g].pc = "new"
    /\ lazy' = [lazy EXCEPT !.managers = Append(@, <<>>),
                            !.field = Len(lazy.managers) + 1,
                            !.gor[g].pc = "return"]

\* return e.plugins (line 130)
PluginsReturn(g) ==
    /\ lazy.gor[g].pc = "return"
    /\ lazy' = [lazy EXCEPT !.gor[g].pc = "have",
                            !.gor[g].got = lazy.field,
                            !.returned = @ \cup {lazy.field}]

\* e.Plugins().Register(p) of a plugin that is enabled and has no name in
\* common with another: the key index is checked, the plugin is appended
RegisterThrough(g) ==
    /\ g \in Goroutines
    /\ lazy.gor[g].pc = "have"
    /\ lazy.gor[g].via = 0
    /\ LET m == lazy.gor[g].got
       IN  lazy' = [lazy EXCEPT
                      !.managers[m] = IF PluginOfCaller(g) \in Range(@) THEN @
                                      ELSE Append(@, PluginOfCaller(g)),
                      !.gor[g].via = m,
                      !.gor[g].pc = "idle"]

\* e.Plugins().List(), or the snapshot a hook dispatch takes of the list
\* (plugin.go:184-190, 203-205)
ListThrough(g) ==
    /\ lazy.gor[g].pc = "have"
    /\ g \in Goroutines => lazy.gor[g].via # 0
    /\ lazy' = [lazy EXCEPT !.gor[g].snapshot = lazy.managers[lazy.gor[g].got],
                            !.gor[g].pc = "idle"]

LazyNext ==
    /\ \E g \in PluginsCallers :
          \/ PluginsTest(g)
          \/ PluginsStore(g)
          \/ PluginsReturn(g)
          \/ RegisterThrough(g)
          \/ ListThrough(g)
    /\ UNCHANGED <<config, pmVars, last, runVars, callVars, reqVars, mwVars, errVars,
                   authVars, evVars, dyn>>

LazySpec == Init /\ [][LazyNext]_vars

\* the plugins registered so far, each with the manager it was registered through
RegisteredThrough == {g \in Goroutines : lazy.gor[g].via # 0}

\* C28: all calls of Plugins() return one manager, and a plugin registered
\* through the manager a call returned is in the list of the manager any
\* call returned.
C28_OneManager ==
    /\ Cardinality(lazy.returned) <= 1
    /\ \A g \in RegisteredThrough : \A m \in lazy.returned :
          PluginOfCaller(g) \in Range(lazy.managers[m])

\* g1 and g2 both found e.plugins nil; g1 got manager 1 and registered H1
\* through it, g2 stored manager 2, and Run took its snapshot from manager
\* 2, where H1 is not
C28_Witness ==
    /\ lazy.gor["g1"].via = 1
    /\ lazy.field = 2
    /\ lazy.gor["main"].got = 2
    /\ lazy.gor["main"].pc = "idle"
    /\ lazy.gor["main"].snapshot = <<>>
    /\ lazy.managers[1] = <<"H1">>

(***************************************************************************)
(* ReloadPermissionMappings while requests are served.  The cache is a     *)
(* sync.Map: each Load, Delete and Store is atomic, the call as a whole is *)
(* not.  LoadPermissionMappings queries the active rows, deletes every key *)
(* of the cache and then stores the rows found, one key at a time; the     *)
(* table is changed between reloads; requests on Auto routes pass the      *)
(* authentication, AutoAuthorizationMiddleware and the handler.            *)
(***************************************************************************)
MaxReloads == 2

KeyA == makeMappingKey("GET", "/a")
KeyB == makeMappingKey("GET", "/b")

\* contents of the table: /a active in the first two, /b in the last two
MappingTables ==
    {[k \in {KeyA} |-> Mapping("doc", "read")],
     [k \in {KeyA, KeyB} |-> IF k = KeyA THEN Mapping("doc", "read")
                             ELSE Mapping("doc", "write")],
     [k \in {KeyB} |-> Mapping("doc", "write")]}

AutoRoutes == {r \in Routes : r.kind = "Auto"}

\* m without the key k
Without(m, k) == [x \in (DOMAIN m) \ {k} |-> m[x]]

\* an administrator changes the rows of api_permission_mappings
TableChanges ==
    /\ loader.pc = "idle"
    /\ loader.n < MaxReloads
    /\ \E t \in MappingTables : t # mappingsDB /\ mappingsDB' = t
    /\ UNCHANGED <<enforcer, mappingCache, loader, errVars>>

\* am.db.Where("is_active = ?", true).Find(&mappings) (lines 236-239)
LoadFind ==
    /\ loader.pc = "idle"
    /\ loader.n < MaxReloads
    /\ loader' = [pc |-> IF DOMAIN mappingCache = {} THEN "store" ELSE "delete",
                  found |-> mappingsDB,
                  todo |-> IF DOMAIN mappingCache = {} THEN DOMAIN mappingsDB
                           ELSE DOMAIN mappingCache,
                  before |-> DOMAIN mappingCache,
                  n |-> loader.n + 1]
    /\ UNCHANGED <<enforcer, mappingCache, mappingsDB, errVars>>

\* what follows the last Delete or Store
AfterStep(l, left) ==
    IF left # {} THEN [l EXCEPT !.todo = left]
    ELSE IF l.pc = "delete" /\ DOMAIN l.found # {}
         THEN [l EXCEPT !.pc = "store", !.todo = DOMAIN l.found]
         ELSE [l EXCEPT !.pc = "idle", !.todo = {}]

\* am.mappingCache.Delete(key) for the next key of the Range (lines 242-245)
LoadDelete ==
    /\ loader.pc = "delete"
    /\ \E k \in loader.todo :
          /\ mappingCache' = Without(mappingCache, k)
          /\ loader' = AfterStep(loader, loader.todo \ {k})
    /\ UNCHANGED <<enforcer, mappingsDB, errVars>>

\* am.mappingCache.Store(key, &mappings[i]) for the next row (lines 248-251)
LoadStore ==
    /\ loader.pc = "store"
    /\ \E k \in loader.todo :
          /\ mappingCache' = Put(mappingCache, k, loader.found[k])
          /\ loader' = AfterStep(loader, loader.todo \ {k})
    /\ UNCHANGED <<enforcer, mappingsDB, errVars>>

\* ReloadPermissionMappings (lines 260-262): the steps of LoadPermissionMappings
ReloadPermissionMappings == LoadFind \/ LoadDelete \/ LoadStore

ReloadInit ==
    /\ config = InitConfig
    /\ InitManager
    /\ InitEngine
    /\ InitCalls
    /\ build = "do.Invoke"
    /\ InitRequests
    /\ InitMiddleware
    /\ InitErrorHandling
    /\ enforcer \in {{<<EncodeUserSub("u1"), "doc", "read">>},
                     {<<EncodeRoleSub("admin"), "doc", "read">>,
                      <<EncodeRoleSub("admin"), "doc", "write">>}}
    /\ mappingsDB \in MappingTables
    /\ mappingCache = mappingsDB
    /\ loader = NoLoad
    /\ InitEvents
    /\ InitLazy
    /\ InitDyn

ReloadNext ==
    /\ \/ TableChanges
       \/ ReloadPermissionMappings
       \/ (\E route \in AutoRoutes : RequestEntersRoute(route)) /\ UNCHANGED authVars
       \/ (\E c \in ClaimsChoices : AuthenticationMiddleware("valid", c))
             /\ UNCHANGED authVars
       \/ AuthorizationMiddleware({}) /\ UNCHANGED authVars
       \/ RouteHandler /\ UNCHANGED authVars
       \/ ctx.at = "end" /\ ChainReturns /\ UNCHANGED authVars
       \/ ErrorHandlerAfterNext /\ UNCHANGED authVars
    /\ UNCHANGED <<config, pmVars, last, runVars, callVars, reqVars, mwVars, evVars,
                   engVars>>

ReloadSpec == ReloadInit /\ [][ReloadNext]_vars

\* the step is AutoAuthorizationMiddleware for an authenticated request
AutoAuthorizes ==
    /\ ctx.pc = "next" /\ ctx.at = "authz" /\ ctx.route.kind = "Auto"
    /\ ctx.claims.set
    /\ ctx' # ctx

\* the key of the request's route
RouteKey == makeMappingKey(ctx.route.method, ctx.route.path)

\* a reload is in progress and the route's mapping is active before and after it
ReloadKeeps(key) ==
    /\ loader.pc # "idle"
    /\ key \in loader.before
    /\ key \in DOMAIN loader.found

\* C29: while a reload is in progress, AutoAuthorizationMiddleware never
\* rejects a request for a missing mapping when the request's METHOD:PATH
\* has an active mapping both before and after the reload.
C29_ReloadIsAtomic ==
    [][(AutoAuthorizes /\ ReloadKeeps(RouteKey)) =>
          ~(getAPIPermissionMapping(ctx.route.method, ctx.route.path).err
            /\ ctx'.aborted)]_vars

\* a request of u1 on GET /a, whose mapping doc:read is active before and
\* after the reload and allowed to u1, was answered 403 because it met
\* the cache between the Delete and the Store of its key
C29_Witness ==
    /\ ctx.pc = "done" /\ ctx.route.path = "/a" /\ ctx.ran = 0
    /\ ctx.claims.UserID = "u1"
    /\ <<EncodeUserSub("u1"), "doc", "read">> \in enforcer
    /\ Len(ctx.written) = 1 /\ ctx.written[1].status = 403
    /\ loader.pc = "store" /\ KeyA \in loader.before /\ KeyA \in loader.todo
    /\ mappingsDB[KeyA] = Mapping("doc", "read")

(***************************************************************************)
(* The dynamic configuration manager: Update and LoadAll / Reload called   *)
(* from two goroutines.  LoadAll queries the enabled rows before it takes  *)
(* m.mu and sets Viper under it; Update does all its work under m.mu.  The *)
(* cached variant of abe_validator.go takes the same steps and writes      *)
(* m.cache next to Viper.                                                  *)
(***************************************************************************)
MaxConfigCalls == 3

\* the keys and values Update is called with: "z" is no row, "x" is no int
UpdateKeys == {"a", "s", "z"}
UpdateValues == {"2", "01", "x"}

\* rows with enabled = true
EnabledRows(db) == [k \in {x \in DOMAIN db : db[x].Enabled} |-> db[k]]

\* viper.Set(cfg.Key, value) for every row that parses (lines 59-73)
RECURSIVE SetAll(_, _, _)
SetAll(viper, found, keys) ==
    IF keys = {} THEN viper
    ELSE LET k == CHOOSE x \in keys : TRUE
             v == parseValue(found[k].Value, found[k].ValueType)
         IN  SetAll(IF v.ok THEN Put(viper, k, v) ELSE viper, found, keys \ {k})

\* LoadAll: m.db.Where("enabled = ?", true).Find(&configs) (lines 50-54)
LoadAllFind(g) ==
    /\ dyn.gor[g].pc = "idle"
    /\ dyn.calls < MaxConfigCalls
    /\ dyn' = [dyn EXCEPT !.gor[g] = [NoConfigCall EXCEPT !.pc = "found",
                                                          !.op = "LoadAll",
                                                          !.found = EnabledRows(dyn.db)],
                          !.calls = @ + 1]

\* LoadAll: m.mu.Lock(), the loop over configs, Unlock (lines 56-76)
LoadAllSet(g) ==
    /\ dyn.gor[g].pc = "found"
    /\ dyn.mu = "free"
    /\ dyn' = [dyn EXCEPT !.viper = SetAll(dyn.viper, dyn.gor[g].found,
                                           DOMAIN dyn.gor[g].found),
                          !.gor[g].pc = "idle"]

\* Update: m.mu.Lock() (lines 87-89)
UpdateLock(g, key, value) ==
    /\ dyn.gor[g].pc = "idle"
    /\ dyn.calls < MaxConfigCalls
    /\ dyn.mu = "free"
    /\ dyn' = [dyn EXCEPT !.mu = g,
                          !.gor[g] = [NoConfigCall EXCEPT !.pc = "locked", !.op = "Update",
                                                          !.key = key, !.value = value],
                          !.calls = @ + 1]

\* Update: First, parseValue and the UPDATE of the row (lines 91-105);
\* dbErr: the UPDATE fails
UpdateWrite(g, dbErr) ==
    /\ dyn.gor[g].pc = "locked"
    /\ LET key   == dyn.gor[g].key
           value == dyn.gor[g].value
           Return(err) == dyn' = [dyn EXCEPT !.mu = "free", !.gor[g].pc = "idle",
                                             !.gor[g].err = err]
       IN  IF key \notin DOMAIN dyn.db THEN Return("not found")
           ELSE IF ~parseValue(value, dyn.db[key].ValueType).ok THEN Return("format")
           ELSE IF dbErr THEN Return("update failed")
           ELSE dyn' = [dyn EXCEPT !.db[key].Value = value, !.gor[g].pc = "written"]

\* Update: m.viper.Set(key, parsedValue), Unlock (lines 107-115)
UpdateSet(g) ==
    /\ dyn.gor[g].pc = "written"
    /\ LET key == dyn.gor[g].key
       IN  dyn' = [dyn EXCEPT
                      !.viper = Put(dyn.viper, key,
                                    parseValue(dyn.gor[g].value, dyn.db[key].ValueType)),
                      !.mu = "free",
                      !.gor[g].pc = "idle"]

DynNext ==
    /\ \E g \in Goroutines :
          \/ LoadAllFind(g)
          \/ LoadAllSet(g)
          \/ \E key \in UpdateKeys, value \in UpdateValues : UpdateLock(g, key, value)
          \/ \E dbErr \in BOOLEAN : UpdateWrite(g, dbErr)
          \/ UpdateSet(g)
    /\ UNCHANGED <<config, pmVars, last, runVars, callVars, reqVars, mwVars, errVars,
                   authVars, evVars, lazy>>

DynSpec == Init /\ [][DynNext]_vars

\* every call has completed
Quiescent == \A g \in Goroutines : dyn.gor[g].pc = "idle"

\* Viper holds, for every enabled key, the parsed value of its row
InSync ==
    \A k \in DOMAIN EnabledRows(dyn.db) :
        /\ Has(dyn.viper, k)
        /\ dyn.viper[k] = parseValue(dyn.db[k].Value, dyn.db[k].ValueType)

\* the step is the return of an Update of g with an error
UpdateFails(g) ==
    /\ dyn.gor[g].pc = "locked" /\ dyn'.gor[g].pc = "idle"
    /\ dyn'.gor[g].err # "nil"

\* C30: once all calls have completed, Viper holds for every enabled key
\* the parsed value of its row; and an Update that returns an error (the
\* value does not parse, the key is no row) changes neither the rows nor
\* Viper.
C30_MemoryFollowsDatabase ==
    [][/\ Quiescent' => InSync'
       /\ \A g \in Goroutines :
             UpdateFails(g) => dyn'.db = dyn.db /\ dyn'.viper = dyn.viper]_vars

\* g1's LoadAll read a = "1", g2's Update(a, "2") ran to its end, then
\* g1 set Viper from what it had read: the row holds "2", Viper holds 1
C30_Witness ==
    /\ Quiescent
    /\ dyn.gor["g1"].op = "LoadAll" /\ dyn.gor["g2"].op = "Update"
    /\ dyn.gor["g2"].err = "nil"
    /\ dyn.db["a"].Value = "2"
    /\ dyn.viper["a"].n = 1

==========================================================================
